---- MODULE Spec2Model ----
(***************************************************************************)
(* A model of ate, a terminal pager with hyperlink search.                 *)
(*                                                                         *)
(* Offsets, line indices and match indices are 0-based as in the Rust      *)
(* source; TLA+ sequences are 1-based, so element i of a Vec v is v[i+1].  *)
(* Option<T> is modelled as a sequence: None is << >>, Some(x) is <<x>>.   *)
(* The text of a document is the sequence of its grapheme clusters, as     *)
(* produced by Graphemes::new(text); byte offsets are sums of the          *)
(* clusters' byte lengths.                                                 *)
(***************************************************************************)
EXTENDS Integers, Sequences, FiniteSets, TLC

\* ------------------------------------------------------------------ bounds

\* Largest terminal width (columns) a resize can produce.
MaxWidth == 2
\* Largest terminal height (rows) a resize can produce.
MaxTermHeight == 7
\* Longest query the model lets the user type.
MaxQuery == 1
\* usize is modelled with this many bits; arithmetic wraps modulo 2^UsizeBits.
UsizeBits == 12

\* Most parsed actions in an input stream of the document family.
MaxInput == 3

\* Most SGR sequences in a document of the rendering family.
MaxSgr == 2

\* Most rows of a page in the rendering family.
MaxRows == 2

\* ------------------------------------------------------------ integer helpers

Min(a, b) == IF a <= b THEN a ELSE b

Max(a, b) == IF a >= b THEN a ELSE b

RECURSIVE Pow2(_)
Pow2(n) == IF n = 0 THEN 1 ELSE 2 * Pow2(n - 1)

\* Number of values of a usize.
USIZE == Pow2(UsizeBits)

\* usize::saturating_sub
SatSub(a, b) == IF a >= b THEN a - b ELSE 0

\* a + b and a - b as a release build computes them (wrapping).
WrapAdd(a, b) == (a + b) % USIZE

WrapSub(a, b) == (a - b + USIZE) % USIZE

\* u8::MAX: `x as u8` of a float saturates there.
U8Max == 255

None == << >>

Some(x) == << x >>

IsSome(o) == Len(o) = 1

Unwrap(o) == o[1]

UnwrapOr(o, d) == IF IsSome(o) THEN o[1] ELSE d

\* slice::partition_point on a slice partitioned by a predicate, given the
\* predicate's value on each element: the index of the first element for
\* which it is false (the length if there is none).
PartitionPoint(pred) ==
    CHOOSE k \in 0..Len(pred) :
        /\ \A j \in 1..k : pred[j]
        /\ (k = Len(pred) \/ ~pred[k + 1])

\* ------------------------------------------------------------------ text

\* grapheme.len(): the cluster's length in bytes. "W" stands for a wide
\* three-byte cluster, every other cluster of the model is one byte.
GraphemeBytes(g) == IF g = "W" THEN 3 ELSE 1

\* grapheme_column_width(g, None)
GraphemeCells(g) == IF g = "W" THEN 2 ELSE IF g = "\n" THEN 0 ELSE 1

RECURSIVE TextLen(_)
TextLen(text) ==
    IF text = << >> THEN 0
    ELSE GraphemeBytes(Head(text)) + TextLen(Tail(text))

\* &text[start..end]: the clusters whose bytes lie in [start, end); i is the
\* cluster the scan is at and byte its offset.
RECURSIVE SliceFrom(_, _, _, _, _)
SliceFrom(text, i, byte, start, end) ==
    IF i > Len(text) \/ byte >= end THEN << >>
    ELSE LET rest == SliceFrom(text, i + 1, byte + GraphemeBytes(text[i]), start, end)
         IN  IF byte >= start THEN << text[i] >> \o rest ELSE rest

Slice(text, start, end) == SliceFrom(text, 1, 0, start, end)

\* str::contains: needle occurs in hay as a contiguous subsequence.
Contains(hay, needle) ==
    \E i \in 0..(Len(hay) - Len(needle)) :
        SubSeq(hay, i + 1, i + Len(needle)) = needle

\* ------------------------------------------------------------ attributes

\* CellAttributes::default(), reduced to the two attributes the model tracks.
DefaultAttributes == [reverse |-> FALSE, foreground |-> "Default"]

\* Change::AllAttributes(CellAttributes::default())
ResetChange ==
    [kind |-> "AllAttributes", attr |-> "", reverse |-> FALSE, color |-> "Default"]

\* Change::Attribute(AttributeChange::Reverse(b))
ReverseChange(b) ==
    [kind |-> "Attribute", attr |-> "Reverse", reverse |-> b, color |-> "Default"]

\* Change::Attribute(AttributeChange::Foreground(c))
ForegroundChange(c) ==
    [kind |-> "Attribute", attr |-> "Foreground", reverse |-> FALSE, color |-> c]

\* The match of DocumentView::flow on one change of doc.attrs.
ApplyChange(attributes, change) ==
    IF change.kind = "AllAttributes" THEN DefaultAttributes
    ELSE IF change.attr = "Reverse" THEN [attributes EXCEPT !.reverse = change.reverse]
    ELSE [attributes EXCEPT !.foreground = change.color]

\* The while loop of flow: applies every change of attrs, from attr_idx on,
\* whose offset is <= byte.
RECURSIVE ApplyPending(_, _, _, _)
ApplyPending(attrs, attr_idx, byte, attributes) ==
    IF attr_idx < Len(attrs) /\ byte >= attrs[attr_idx + 1].offset
    THEN ApplyPending(attrs, attr_idx + 1, byte,
                      ApplyChange(attributes, attrs[attr_idx + 1].change))
    ELSE [attr_idx |-> attr_idx, attributes |-> attributes]

\* An iteration of flow that closes a row at a line feed only.
FlowStepLineFeedOnly(width, attrs, st, g) ==
    LET nl == g = "\n"
        lines1 == IF nl
                  THEN Append(st.lines,
                              [start_byte |-> st.byte + 1,
                               start_attributes |-> st.attributes])
                  ELSE st.lines
        ap == IF nl THEN [attr_idx |-> st.attr_idx, attributes |-> st.attributes]
              ELSE ApplyPending(attrs, st.attr_idx, st.byte, st.attributes)
    IN  [byte |-> st.byte + GraphemeBytes(g),
         attr_idx |-> ap.attr_idx,
         cells_in_line |-> IF nl THEN 0 ELSE st.cells_in_line + GraphemeCells(g),
         attributes |-> ap.attributes,
         lines |-> lines1]

\* One iteration of the for loop of flow over the cluster g.
FlowStep(width, attrs, st, g) ==
    LET nl == g = "\n"
        brk == st.cells_in_line + GraphemeCells(g) > width \/ nl
        lines1 == IF brk
                  THEN Append(st.lines,
                              [start_byte |-> IF nl THEN st.byte + 1 ELSE st.byte,
                               start_attributes |-> st.attributes])
                  ELSE st.lines
        cells1 == IF brk THEN 0 ELSE st.cells_in_line
        ap == IF nl THEN [attr_idx |-> st.attr_idx, attributes |-> st.attributes]
              ELSE ApplyPending(attrs, st.attr_idx, st.byte, st.attributes)
    IN  [byte |-> st.byte + GraphemeBytes(g),
         attr_idx |-> ap.attr_idx,
         cells_in_line |-> IF nl THEN cells1 ELSE cells1 + GraphemeCells(g),
         attributes |-> ap.attributes,
         lines |-> lines1]

RECURSIVE FlowLoop(_, _, _, _, _)
FlowLoop(width, text, attrs, i, st) ==
    IF i > Len(text) THEN st
    ELSE FlowLoop(width, text, attrs, i + 1, FlowStep(width, attrs, st, text[i]))

\* A flow whose first row starts at the second byte.
flow_from_second_byte(width, text, attrs) ==
    FlowLoop(width, text, attrs, 1,
             [byte |-> 0, attr_idx |-> 0, cells_in_line |-> 0,
              attributes |-> DefaultAttributes,
              lines |-> << [start_byte |-> 1,
                            start_attributes |-> DefaultAttributes] >>]).lines

\* DocumentView::flow: the Line cache of text at width.
flow(width, text, attrs) ==
    FlowLoop(width, text, attrs, 1,
             [byte |-> 0, attr_idx |-> 0, cells_in_line |-> 0,
              attributes |-> DefaultAttributes,
              lines |-> << [start_byte |-> 0,
                            start_attributes |-> DefaultAttributes] >>]).lines

\* ---------------------------------------------------------------- Document

\* The locals of Document::new with an attrs list that starts empty.
NewBuilderWithoutReset ==
    [text |-> << >>, len |-> 0, attrs |-> << >>,
     links |-> << >>, partial_link |-> None, panicked |-> FALSE]

\* The state of Document::new before the first parsed action.
NewBuilder ==
    [text |-> << >>, len |-> 0,
     attrs |-> << [offset |-> 0, change |-> ResetChange] >>,
     links |-> << >>, partial_link |-> None, panicked |-> FALSE]

\* The closure of Document::new on one parsed action a = [t, arg]:
\*   Print(c), Control(LineFeed), CSI(Sgr(..)), SetHyperlink(Some(uri) | None).
\* An Sgr without an AttributeChange (VerticalAlign, UnderlineColor, Font,
\* Overline) reaches todo!() and panics.
BuilderStep(b, a) ==
    IF b.panicked THEN b
    ELSE IF a.t = "Print"
    THEN [b EXCEPT !.text = Append(@, a.arg), !.len = @ + GraphemeBytes(a.arg)]
    ELSE IF a.t = "LineFeed"
    THEN [b EXCEPT !.text = Append(@, "\n"), !.len = @ + 1]
    ELSE IF a.t = "SgrReset"
    THEN [b EXCEPT !.attrs = Append(@, [offset |-> b.len, change |-> ResetChange])]
    ELSE IF a.t = "SgrInverse"
    THEN [b EXCEPT !.attrs = Append(@, [offset |-> b.len,
                                        change |-> ReverseChange(a.arg = "on")])]
    ELSE IF a.t = "SgrForeground"
    THEN [b EXCEPT !.attrs = Append(@, [offset |-> b.len,
                                        change |-> ForegroundChange(a.arg)])]
    ELSE IF a.t = "SgrFont"
    THEN [b EXCEPT !.panicked = TRUE]
    ELSE IF a.t = "SetHyperlink"
    THEN LET done == IF IsSome(b.partial_link)
                     THEN Append(b.links, [start |-> Unwrap(b.partial_link).start,
                                           uri |-> Unwrap(b.partial_link).uri,
                                           end |-> b.len])
                     ELSE b.links
         IN  [b EXCEPT !.links = done,
                       !.partial_link = IF a.arg = "" THEN None
                                        ELSE Some([start |-> b.len, uri |-> a.arg])]
    ELSE b

RECURSIVE BuilderLoop(_, _, _)
BuilderLoop(input, i, b) ==
    IF i > Len(input) THEN b
    ELSE BuilderLoop(input, i + 1, BuilderStep(b, input[i]))

\* Document::new without the closing of the link still open at the end of
\* the input.
DocumentNewLeavingLinkOpen(inp) ==
    LET b == BuilderLoop(inp, 1, NewBuilder)
    IN  [text |-> b.text, attrs |-> b.attrs, links |-> b.links,
         panicked |-> b.panicked]

\* A Document::new that ends every link at the end of the text.
DocumentNewLinksToEnd(inp) ==
    LET b == BuilderLoop(inp, 1, NewBuilder)
        links == IF IsSome(b.partial_link) /\ ~b.panicked
                 THEN Append(b.links, [start |-> Unwrap(b.partial_link).start,
                                       uri |-> Unwrap(b.partial_link).uri,
                                       end |-> b.len])
                 ELSE b.links
    IN  [text |-> b.text, attrs |-> b.attrs,
         links |-> [k \in 1..Len(links) |-> [links[k] EXCEPT !.end = b.len]],
         panicked |-> b.panicked]

\* Document::new on the parsed actions of an input stream.
DocumentNew(input) ==
    LET b == BuilderLoop(input, 1, NewBuilder)
        links == IF IsSome(b.partial_link) /\ ~b.panicked
                 THEN Append(b.links, [start |-> Unwrap(b.partial_link).start,
                                       uri |-> Unwrap(b.partial_link).uri,
                                       end |-> b.len])
                 ELSE b.links
    IN  [text |-> b.text, attrs |-> b.attrs, links |-> links, panicked |-> b.panicked]

ActPrint(c) == [t |-> "Print", arg |-> c]

ActLineFeed == [t |-> "LineFeed", arg |-> ""]

ActSgrReset == [t |-> "SgrReset", arg |-> ""]

ActSgrInverse(on) == [t |-> "SgrInverse", arg |-> on]

ActSgrFont == [t |-> "SgrFont", arg |-> ""]

ActSgrForeground(c) == [t |-> "SgrForeground", arg |-> c]

ActSetHyperlink(uri) == [t |-> "SetHyperlink", arg |-> uri]

\* The input streams the session is started on, as parsed actions.
\*   1: the text "a\nbn\nb\nn\nN" with four links, one of them empty and one
\*      reaching over a row break, in the manner of tests::next_links;
\*   2: a long row and a short one, without links.
Inputs ==
    << << ActPrint("a"), ActLineFeed,
          ActSetHyperlink("u0"), ActPrint("b"), ActPrint("n"),
          ActSetHyperlink("u1"), ActSetHyperlink(""), ActLineFeed,
          ActSgrForeground("Red"), ActPrint("b"), ActSgrReset, ActLineFeed,
          ActSetHyperlink("u2"), ActPrint("n"), ActLineFeed, ActSetHyperlink(""),
          ActSetHyperlink("u3"), ActPrint("N") >>,
       << ActPrint("a"), ActPrint("b"), ActPrint("n"), ActPrint("a"), ActPrint("b"),
          ActPrint("n"), ActLineFeed, ActPrint("b") >> >>

\* The document d with Self::flow(width, &d.text, &d.attrs) for every width of
\* the model, computed once: the view takes its line cache from this table.
Flowed(d) ==
    [text |-> d.text, attrs |-> d.attrs, links |-> d.links, panicked |-> d.panicked,
     flowed |-> [width \in 1..MaxWidth |-> flow(width, d.text, d.attrs)]]

\* ------------------------------------------------------------ DocumentView

\* DocumentView::new
NewView(d, width, height) ==
    [highlights |-> << >>, line |-> 0, width |-> width, height |-> height,
     lines |-> d.flowed[width]]

\* DocumentView::find_line
find_line(v, byte) ==
    LET P(l) == l.start_byte <= byte
    IN  PartitionPoint([i \in 1..Len(v.lines) |-> P(v.lines[i])]) - 1

\* A make_line_visible that scrolls the found row to the top of the page,
\* without the three rows of context.
make_line_visible_no_context(v, line) ==
    IF SatSub(line, 3) < v.line \/ (line + 3) > (v.line + v.height)
    THEN [v EXCEPT !.line = line]
    ELSE v

\* DocumentView::make_line_visible
make_line_visible(v, line) ==
    IF SatSub(line, 3) < v.line \/ (line + 3) > (v.line + v.height)
    THEN [v EXCEPT !.line = SatSub(line, 3)]
    ELSE v

\* DocumentView::highlight
highlight(v, start, end) ==
    LET v1 == [v EXCEPT !.highlights = << <<start, end>> >>]
    IN  make_line_visible(v1, find_line(v1, start))

\* DocumentView::backward
backward(v, lines) == [v EXCEPT !.line = SatSub(v.line, lines)]

\* self.line + max(1, lines) in DocumentView::forward exceeds usize: a panic
\* with overflow checks, a wrapped sum without.
forward_overflows(v, lines) == v.line + Max(1, lines) >= USIZE

\* A forward that stops one row before the last full page.
forward_stopping_short(v, lines) ==
    [v EXCEPT !.line = Min(SatSub(Len(v.lines), v.height + 1),
                           WrapAdd(v.line, Max(1, lines)))]

\* DocumentView::forward (the sum wraps; see forward_overflows)
forward(v, lines) ==
    [v EXCEPT !.line = Min(SatSub(Len(v.lines), v.height),
                           WrapAdd(v.line, Max(1, lines)))]

\* A set_size that goes back to the top of the text when the width changes.
set_size_to_top(v, d, width, height) ==
    IF width = v.width THEN [v EXCEPT !.height = height]
    ELSE [v EXCEPT !.height = height, !.width = width, !.line = 0,
                   !.lines = d.flowed[width]]

\* DocumentView::set_size
set_size(v, d, width, height) ==
    IF width = v.width THEN [v EXCEPT !.height = height]
    ELSE [v EXCEPT !.height = height, !.width = width,
                   !.lines = d.flowed[width]]

\* DocumentView::percent. The f64 quotient line / final_page_line * 100.0 is
\* +inf (or NaN for 0/0, not reachable here since line # 0) when
\* final_page_line = 0, and `as u8` saturates: inf and every value above 255
\* become 255. For final_page_line <= 9, which the documents of the model
\* never exceed, the floored f64 product equals the integer quotient.
percent(v) ==
    IF v.line = 0 \/ Len(v.lines) < v.height THEN 0
    ELSE LET final_page_line == Len(v.lines) - v.height
         IN  IF final_page_line = v.line THEN 100
             ELSE IF final_page_line = 0 THEN U8Max
             ELSE Min(U8Max, (v.line * 100) \div final_page_line)

\* --------------------------------------------------------------- rendering

\* Change::Text of the cluster g. byte is the offset of the cluster in the
\* document (-1 for the "\r\n" between rows); the properties read it.
TextChange(g, byte) ==
    [kind |-> "Text", attr |-> g, reverse |-> FALSE, color |-> "Default",
     byte |-> byte]

\* Change::AllAttributes(attributes)
AllAttributes(attributes) ==
    [kind |-> "AllAttributes", attr |-> "", reverse |-> attributes.reverse,
     color |-> attributes.foreground]

\* A treatment of document changes under a highlight that inverts Reverse
\* changes and passes AllAttributes on as it is.
InHighlightKeepsReset(change, highlighted) ==
    IF highlighted /\ change.kind = "Attribute" /\ change.attr = "Reverse"
    THEN [change EXCEPT !.reverse = ~@]
    ELSE change

\* What render_lines pushes for a change of doc.attrs: under a highlight the
\* reverse of a Reverse change and of an AllAttributes is negated.
InHighlight(change, highlighted) ==
    IF highlighted /\ (\/ change.kind = "Attribute" /\ change.attr = "Reverse"
                       \/ change.kind = "AllAttributes")
    THEN [change EXCEPT !.reverse = ~@]
    ELSE change

\* A while loop that, of several changes at one offset, pushes the last only.
RECURSIVE RenderPendingLastOfOffset(_, _)
RenderPendingLastOfOffset(attrs, r) ==
    IF r.attr_idx < Len(attrs) /\ r.byte >= attrs[r.attr_idx + 1].offset
    THEN LET change == attrs[r.attr_idx + 1].change
             sets_reverse == \/ change.kind = "Attribute" /\ change.attr = "Reverse"
                             \/ change.kind = "AllAttributes"
             tied == /\ r.attr_idx + 1 < Len(attrs)
                     /\ attrs[r.attr_idx + 2].offset = attrs[r.attr_idx + 1].offset
         IN  RenderPendingLastOfOffset(attrs,
                 IF tied THEN [r EXCEPT !.attr_idx = @ + 1]
                 ELSE [r EXCEPT !.attr_idx = @ + 1,
                                !.reversed = IF sets_reverse THEN change.reverse ELSE @,
                                !.pushed = Append(@, [idx |-> r.attr_idx,
                                                      at |-> Len(r.changes) + 1]),
                                !.changes = Append(@, InHighlight(change,
                                                           IsSome(r.highlight)))])
    ELSE r

\* The while loop of render_lines: pushes every change of attrs, from
\* attr_idx on, whose offset is <= byte, and tracks the reverse they set.
\* pushed records, for the properties, which entry of attrs each pushed
\* change is and where in changes it stands.
RECURSIVE RenderPending(_, _)
RenderPending(attrs, r) ==
    IF r.attr_idx < Len(attrs) /\ r.byte >= attrs[r.attr_idx + 1].offset
    THEN LET change == attrs[r.attr_idx + 1].change
             sets_reverse == \/ change.kind = "Attribute" /\ change.attr = "Reverse"
                             \/ change.kind = "AllAttributes"
         IN  RenderPending(attrs,
                 [r EXCEPT !.attr_idx = @ + 1,
                           !.reversed = IF sets_reverse THEN change.reverse ELSE @,
                           !.pushed = Append(@, [idx |-> r.attr_idx,
                                                 at |-> Len(r.changes) + 1]),
                           !.changes = Append(@, InHighlight(change,
                                                             IsSome(r.highlight)))])
    ELSE r

\* The highlight switch of render_lines before a cluster: an active highlight
\* that ends at or before byte is left, otherwise the next one is entered if
\* it has begun.
RenderHighlight(highlights, r) ==
    IF IsSome(r.highlight)
    THEN IF Unwrap(r.highlight)[2] <= r.byte
         THEN [r EXCEPT !.highlight = None,
                        !.changes = Append(@, ReverseChange(r.reversed)),
                        !.highlight_idx = @ + 1]
         ELSE r
    ELSE IF /\ r.highlight_idx < Len(highlights)
            /\ highlights[r.highlight_idx + 1][1] <= r.byte
    THEN [r EXCEPT !.highlight = Some(highlights[r.highlight_idx + 1]),
                   !.changes = Append(@, ReverseChange(~r.reversed))]
    ELSE r

\* An iteration of render_lines that goes on past the last row of the page.
RenderStepPastLastRow(d, v, highlights, last_displayed_line, r, g) ==
    IF r.done THEN r
    ELSE LET brk == r.cells_in_line + GraphemeCells(g) > v.width \/ g = "\n"
         IN  IF FALSE THEN r
             ELSE LET r1 == IF brk
                            THEN [r EXCEPT !.changes = Append(@, TextChange("\r\n", -1)),
                                           !.line = @ + 1,
                                           !.cells_in_line = 0]
                            ELSE r
                      r2 == IF g = "\n" THEN r1
                            ELSE LET p == RenderPending(d.attrs,
                                              RenderHighlight(highlights, r1))
                                 IN  [p EXCEPT !.changes = Append(@, TextChange(g, p.byte)),
                                               !.cells_in_line = @ + GraphemeCells(g)]
                  IN  [r2 EXCEPT !.byte = @ + GraphemeBytes(g)]

\* One iteration of the for loop of render_lines over the cluster g.
RenderStep(d, v, highlights, last_displayed_line, r, g) ==
    IF r.done THEN r
    ELSE LET brk == r.cells_in_line + GraphemeCells(g) > v.width \/ g = "\n"
         IN  IF brk /\ r.line = last_displayed_line THEN [r EXCEPT !.done = TRUE]
             ELSE LET r1 == IF brk
                            THEN [r EXCEPT !.changes = Append(@, TextChange("\r\n", -1)),
                                           !.line = @ + 1,
                                           !.cells_in_line = 0]
                            ELSE r
                      r2 == IF g = "\n" THEN r1
                            ELSE LET p == RenderPending(d.attrs,
                                              RenderHighlight(highlights, r1))
                                 IN  [p EXCEPT !.changes = Append(@, TextChange(g, p.byte)),
                                               !.cells_in_line = @ + GraphemeCells(g)]
                  IN  [r2 EXCEPT !.byte = @ + GraphemeBytes(g)]

RECURSIVE RenderLoop(_, _, _, _, _, _, _)
RenderLoop(d, v, highlights, last_displayed_line, graphemes, i, r) ==
    IF i > Len(graphemes) THEN r
    ELSE RenderLoop(d, v, highlights, last_displayed_line, graphemes, i + 1,
                    RenderStep(d, v, highlights, last_displayed_line, r,
                               graphemes[i]))

\* render_lines(doc, view, line, height, highlights, changes), for a line
\* inside the cache: the locals of the function when it returns.
render_pass(d, v, line, height, highlights) ==
    LET byte == v.lines[line + 1].start_byte
        line_attrs == v.lines[line + 1].start_attributes
        r0 == [byte |-> byte, line |-> line, cells_in_line |-> 0,
               reversed |-> line_attrs.reverse,
               attr_idx |-> PartitionPoint([i \in 1..Len(d.attrs) |->
                                               d.attrs[i].offset < byte]),
               highlight_idx |-> PartitionPoint([i \in 1..Len(highlights) |->
                                                    highlights[i][2] <= byte]),
               highlight |-> None,
               changes |-> << AllAttributes(line_attrs) >>,
               pushed |-> << >>,
               done |-> FALSE]
    IN  RenderLoop(d, v, highlights, Min(Len(v.lines), line + height) - 1,
                   Slice(d.text, byte, TextLen(d.text)), 1, r0)

\* The changes render_lines pushes.
render_lines(d, v, line, height, highlights) ==
    render_pass(d, v, line, height, highlights).changes

\* A change of attributes as the surface applies it to its pen.
ApplyToPen(attributes, change) ==
    IF change.kind = "AllAttributes"
    THEN [reverse |-> change.reverse, foreground |-> change.color]
    ELSE ApplyChange(attributes, change)

\* The clusters a list of changes writes to the surface, each with its
\* offset and the attributes of the pen when it is written.
RECURSIVE Emitted(_, _, _)
Emitted(changes, i, attributes) ==
    IF i > Len(changes) THEN << >>
    ELSE LET c == changes[i]
         IN  IF c.kind # "Text"
             THEN Emitted(changes, i + 1, ApplyToPen(attributes, c))
             ELSE (IF c.byte >= 0
                   THEN << [byte |-> c.byte, cluster |-> c.attr,
                            attributes |-> attributes] >>
                   ELSE << >>) \o Emitted(changes, i + 1, attributes)

\* ------------------------------------------------------------------ Search

\* A filter that compares without regard to case.
Lower(g) == IF g = "N" THEN "n" ELSE g

RECURSIVE FilterLinksIgnoringCase(_, _, _)
FilterLinksIgnoringCase(d, query, i) ==
    IF i >= Len(d.links) THEN << >>
    ELSE LET l == d.links[i + 1]
             slice == Slice(d.text, l.start, l.end)
             rest == FilterLinksIgnoringCase(d, query, i + 1)
         IN  IF Contains([k \in 1..Len(slice) |-> Lower(slice[k])],
                         [k \in 1..Len(query) |-> Lower(query[k])])
             THEN << i >> \o rest
             ELSE rest

\* The filter of Search::update_matches (and, for the empty query, the
\* enumeration of Search::new): indices of the links whose text contains query.
RECURSIVE FilterLinks(_, _, _)
FilterLinks(d, query, i) ==
    IF i >= Len(d.links) THEN << >>
    ELSE LET l == d.links[i + 1]
             rest == FilterLinks(d, query, i + 1)
         IN  IF Contains(Slice(d.text, l.start, l.end), query)
             THEN << i >> \o rest
             ELSE rest

\* Search::new
NewSearch(d) ==
    [query |-> << >>, selected_idx |-> None,
     matches |-> [i \in 1..Len(d.links) |-> i - 1]]

\* A set_selected_idx that records the selection and leaves the view alone.
set_selected_idx_without_highlight(d, sv, selected_idx) ==
    IF selected_idx < Len(sv.search.matches)
    THEN [sv EXCEPT !.search.selected_idx = Some(selected_idx)]
    ELSE sv

\* Search::set_selected_idx, on the pair sv = [search, view]
set_selected_idx(d, sv, selected_idx) ==
    IF selected_idx < Len(sv.search.matches)
    THEN LET link == d.links[sv.search.matches[selected_idx + 1] + 1]
         IN  [search |-> [sv.search EXCEPT !.selected_idx = Some(selected_idx)],
              view |-> highlight(sv.view, link.start, link.end)]
    ELSE sv

\* An update_matches that forgets the previous selection and selects the
\* first match.
update_matches_first(d, sv) ==
    set_selected_idx(d, [sv EXCEPT !.search.matches =
                                       FilterLinks(d, sv.search.query, 0)], 0)

\* An update_matches that filters the links and leaves the selection as it
\* was.
update_matches_keeping_selection(d, sv) ==
    [sv EXCEPT !.search.matches = FilterLinks(d, sv.search.query, 0)]

\* Search::update_matches (query already edited)
update_matches(d, sv) ==
    LET previous_link_idx ==
            IF Len(sv.search.matches) > 0
            THEN sv.search.matches[UnwrapOr(sv.search.selected_idx, 0) + 1]
            ELSE 0
        matches == FilterLinks(d, sv.search.query, 0)
        P(link_idx) == link_idx < previous_link_idx
        pp == PartitionPoint([i \in 1..Len(matches) |-> P(matches[i])])
        new_selected_idx == IF pp = Len(matches) THEN SatSub(Len(matches), 1) ELSE pp
    IN  set_selected_idx(d, [sv EXCEPT !.search.matches = matches], new_selected_idx)

\* SearchMutator::activate
\* An activate that always selects the first match.
activate_first(d, sv) == set_selected_idx(d, sv, 0)

\* SearchMutator::activate
activate(d, sv) ==
    set_selected_idx(d, sv, UnwrapOr(sv.search.selected_idx, 0))

\* A select_next that stops at the last match instead of wrapping.
select_next_clamped(d, sv) ==
    LET sel == sv.search.selected_idx
    IN  set_selected_idx(d, sv,
            IF IsSome(sel)
            THEN Min(Unwrap(sel) + 1, SatSub(Len(sv.search.matches), 1))
            ELSE 0)

\* SearchMutator::select_next
select_next(d, sv) ==
    LET sel == sv.search.selected_idx
    IN  set_selected_idx(d, sv,
            IF IsSome(sel) /\ Unwrap(sel) < SatSub(Len(sv.search.matches), 1)
            THEN Unwrap(sel) + 1
            ELSE 0)

\* SearchMutator::select_prev
select_prev(d, sv) ==
    LET sel == sv.search.selected_idx
    IN  set_selected_idx(d, sv,
            IF sel = None \/ sel = Some(0)
            THEN SatSub(Len(sv.search.matches), 1)
            ELSE Unwrap(sel) - 1)

\* SearchMutator::push_query_char
push_query_char(d, sv, c) ==
    update_matches(d, [sv EXCEPT !.search.query = Append(@, c)])

\* SearchMutator::pop_query_char
pop_query_char(d, sv) ==
    update_matches(d, [sv EXCEPT !.search.query =
                           IF @ = << >> THEN @ ELSE SubSeq(@, 1, Len(@) - 1)])

\* SearchMutator::push_query_str
push_query_str(d, sv, s) ==
    update_matches(d, [sv EXCEPT !.search.query = @ \o s])

\* An open_selected that always opens the first match.
open_selected_first(d, sv) ==
    IF Len(sv.search.matches) = 0 THEN [sv |-> sv, addr |-> None]
    ELSE [sv |-> set_selected_idx(d, sv, 0),
          addr |-> Some(d.links[sv.search.matches[1] + 1].uri)]

\* SearchMutator::open_selected up to the call of the opener: the state it
\* leaves and the URI it hands to open_link (None when there are no matches).
open_selected(d, sv) ==
    IF Len(sv.search.matches) = 0 THEN [sv |-> sv, addr |-> None]
    ELSE LET sel == sv.search.selected_idx
             sv1 == IF IsSome(sel) THEN sv ELSE set_selected_idx(d, sv, 0)
             selected_idx == UnwrapOr(sel, 0)
         IN  [sv |-> sv1,
              addr |-> Some(d.links[sv.search.matches[selected_idx + 1] + 1].uri)]

\* ----------------------------------------------------------------- session

VARIABLES
    doc,                   \* State.doc: [text, attrs, links]
    view,                  \* State.view: DocumentView
    search,                \* State.search: [query, selected_idx, matches]
    shared,                \* State.shared: [searching, term_height, quit]
    last_error,            \* State.last_error: Option<String>
    search_activate_line,  \* State.search_activate_line
    focus,                 \* the widget Ui delivers input to: "doc" or "search"
    proc,                  \* "running", "exited" (step returned QUIT) or "panicked"
    paged_only,            \* history: every input so far was a paging key
    line_before_search,    \* history: view.line when '/' last opened the search
    input                  \* the parsed actions of the stream create_ui read

vars == << doc, view, search, shared, last_error, search_activate_line, focus,
           proc, paged_only, line_before_search, input >>

\* Characters a key press can carry in the model.
KeyChars == {" ", "b", "n", "N", "q", "/"}

\* Characters the model's user types while the search pane has the focus.
QueryChars == {"n", "q"}

\* Strings the model's user pastes.
PasteStrings == {<< >>, <<"b">>}

\* The mutable part of State as one value, for the handlers below.
St == [view |-> view, search |-> search, shared |-> shared,
       last_error |-> last_error, search_activate_line |-> search_activate_line,
       focus |-> focus, proc |-> proc, opened |-> << >>]

\* State::search_mut: the pair the SearchMutator works on, and its write-back.
search_mut(S) == [search |-> S.search, view |-> S.view]

WithSearch(S, sv) == [S EXCEPT !.search = sv.search, !.view = sv.view]

\* A panic ends the process; what the handler had not yet written stays.
Panicked(S) == [S EXCEPT !.proc = "panicked"]

\* State::all_but_status_height ("term_height as u16 - 1"; term_height >= 1 here)
all_but_status_height(sh) == sh.term_height - 1

\* State::search_height
search_height(sh, sr) ==
    IF sh.searching
    THEN Max(Min(Min(10 + 2, all_but_status_height(sh) \div 2), Len(sr.matches) + 2), 1)
    ELSE 0

\* State::doc_height (no u16 underflow for term_height >= 2)
doc_height(sh, sr) == all_but_status_height(sh) - search_height(sh, sr)

\* State::open_search
open_search(d, S) ==
    WithSearch([S EXCEPT !.shared.searching = TRUE,
                         !.search_activate_line = S.view.line],
               activate(d, search_mut(S)))

\* A close_search that takes the highlight of the selection away.
close_search_clearing_highlight(S) ==
    [S EXCEPT !.shared.searching = FALSE, !.view.highlights = << >>]

\* State::close_search
close_search(S) == [S EXCEPT !.shared.searching = FALSE]

\* A cancel_search that closes the search and leaves the page where it is.
cancel_search_keeps_line(S) == close_search(S)

\* A cancel_search that scrolls to the top instead of the saved row.
cancel_search_to_top(S) ==
    [close_search(S) EXCEPT !.view.line = 0]

\* State::cancel_search
cancel_search(S) ==
    LET S1 == close_search(S)
    IN  [S1 EXCEPT !.view.line = S1.search_activate_line]

\* state.view.forward(n) as DocumentWidget::process_key calls it: with
\* overflow checks an overflowing sum panics, without them it wraps.
CallForward(S, n, checks) ==
    IF forward_overflows(S.view, n) /\ checks THEN Panicked(S)
    ELSE [S EXCEPT !.view = forward(S.view, n)]

\* DocumentWidget::process_key. "state.view.height() - 2" underflows for a
\* height below 2: a panic with overflow checks, a wrapped difference without.
DocumentWidget_process_key(S, e, checks) ==
    IF e.key = "Up"
    THEN [handled |-> TRUE, st |-> [S EXCEPT !.view = backward(S.view, 1)]]
    ELSE IF e.key = "Down"
    THEN [handled |-> TRUE, st |-> CallForward(S, 1, checks)]
    ELSE IF e.key = "Char" /\ e.c \in {" ", "b"}
    THEN IF S.view.height < 2 /\ checks
         THEN [handled |-> TRUE, st |-> Panicked(S)]
         ELSE LET n == WrapSub(S.view.height, 2)
              IN  [handled |-> TRUE,
                   st |-> IF e.c = " " THEN CallForward(S, n, checks)
                          ELSE [S EXCEPT !.view = backward(S.view, n)]]
    ELSE [handled |-> FALSE, st |-> S]

\* SearchWidget::process_key, and the Paste arm of SearchWidget::process_event
SearchWidget_process_event(d, S, e) ==
    IF e.kind = "Paste"
    THEN [handled |-> TRUE,
          st |-> WithSearch(S, push_query_str(d, search_mut(S), e.s))]
    ELSE IF e.key = "Enter"
    THEN [handled |-> TRUE, st |-> close_search(S)]
    ELSE IF e.key = "Escape"
    THEN [handled |-> TRUE, st |-> cancel_search(S)]
    ELSE IF e.key = "Char" /\ ~e.ctrl
    THEN [handled |-> TRUE,
          st |-> WithSearch(S, push_query_char(d, search_mut(S), e.c))]
    ELSE IF e.key = "Backspace"
    THEN [handled |-> TRUE, st |-> WithSearch(S, pop_query_char(d, search_mut(S)))]
    ELSE IF e.key = "Up"
    THEN [handled |-> TRUE, st |-> WithSearch(S, select_prev(d, search_mut(S)))]
    ELSE IF e.key = "Down"
    THEN [handled |-> TRUE, st |-> WithSearch(S, select_next(d, search_mut(S)))]
    ELSE [handled |-> FALSE, st |-> S]

\* A MainWidget::process_key that gives up when the opener fails: it sets
\* quit on top of recording the error.
MainWidget_process_key_quit_on_error(d, S, e, ok) ==
    IF e.kind # "Key" THEN [handled |-> FALSE, st |-> S]
    ELSE IF e.key = "Char" /\ e.c = "/"
    THEN [handled |-> TRUE, st |-> open_search(d, S)]
    ELSE IF e.key = "Char" /\ e.c = "N"
    THEN [handled |-> TRUE, st |-> WithSearch(S, select_prev(d, search_mut(S)))]
    ELSE IF e.key = "Char" /\ e.c = "n"
    THEN [handled |-> TRUE, st |-> WithSearch(S, select_next(d, search_mut(S)))]
    ELSE IF e.key = "Enter"
    THEN LET r == open_selected(d, search_mut(S))
             S1 == [WithSearch(S, r.sv) EXCEPT !.opened = r.addr]
         IN  [handled |-> TRUE,
              st |-> IF IsSome(r.addr) /\ ~ok
                     THEN [S1 EXCEPT !.last_error = Some("open failed"),
                                     !.shared.quit = TRUE]
                     ELSE S1]
    ELSE IF e.key = "Char" /\ ((e.c = "c" /\ e.ctrl) \/ e.c = "q")
    THEN [handled |-> TRUE, st |-> [S EXCEPT !.shared.quit = TRUE]]
    ELSE [handled |-> FALSE, st |-> S]

\* MainWidget::process_key; ok is what the opener returns if it is called.
MainWidget_process_key(d, S, e, ok) ==
    IF e.kind # "Key" THEN [handled |-> FALSE, st |-> S]
    ELSE IF e.key = "Char" /\ e.c = "/"
    THEN [handled |-> TRUE, st |-> open_search(d, S)]
    ELSE IF e.key = "Char" /\ e.c = "N"
    THEN [handled |-> TRUE, st |-> WithSearch(S, select_prev(d, search_mut(S)))]
    ELSE IF e.key = "Char" /\ e.c = "n"
    THEN [handled |-> TRUE, st |-> WithSearch(S, select_next(d, search_mut(S)))]
    ELSE IF e.key = "Enter"
    THEN LET r == open_selected(d, search_mut(S))
             S1 == [WithSearch(S, r.sv) EXCEPT !.opened = r.addr]
         IN  [handled |-> TRUE,
              st |-> IF IsSome(r.addr) /\ ~ok
                     THEN [S1 EXCEPT !.last_error = Some("open failed")]
                     ELSE S1]
    ELSE IF e.key = "Char" /\ ((e.c = "c" /\ e.ctrl) \/ e.c = "q")
    THEN [handled |-> TRUE, st |-> [S EXCEPT !.shared.quit = TRUE]]
    ELSE [handled |-> FALSE, st |-> S]

\* Ui::process_event_queue on one event: the focused widget gets it first, and
\* MainWidget, its parent, gets what it does not handle.
deliver(d, S, e, checks, ok) ==
    IF e.kind = "None" THEN S
    ELSE LET first == IF S.focus = "search" THEN SearchWidget_process_event(d, S, e)
                      ELSE IF e.kind = "Key"
                      THEN DocumentWidget_process_key(S, e, checks)
                      ELSE [handled |-> FALSE, st |-> S]
         IN  IF first.handled THEN first.st
             ELSE MainWidget_process_key(d, S, e, ok).st

\* A DocumentWidget::render that takes the highlights out of the view when
\* it has drawn them.
DocumentWidget_render_taking_highlights(d, S, width, height) ==
    IF ~(width > 0 /\ height > 0) THEN Panicked(S)
    ELSE LET v == set_size(S.view, d, width, height)
         IN  [S EXCEPT !.view = [v EXCEPT !.highlights = << >>],
                       !.proc = IF v.line >= Len(v.lines) THEN "panicked" ELSE @]

\* DocumentWidget::render on a surface of width x height: the assertion,
\* set_size, and render_lines, which indexes the line cache at view.line.
DocumentWidget_render(d, S, width, height) ==
    IF ~(width > 0 /\ height > 0) THEN Panicked(S)
    ELSE LET v == set_size(S.view, d, width, height)
         IN  [S EXCEPT !.view = v,
                       !.proc = IF v.line >= Len(v.lines) THEN "panicked" ELSE @]

\* A step that never looks at the quit flag.
step_without_quit_check(d, S, e, w, h, checks, ok) ==
    LET S1 == deliver(d, [S EXCEPT !.shared.term_height = h], e, checks, ok)
    IN  IF S1.proc # "running" THEN S1
        ELSE DocumentWidget_render(
                 d, [S1 EXCEPT !.focus = IF S1.shared.searching THEN "search"
                                         ELSE "doc"],
                 w, doc_height(S1.shared, S1.search))

\* AteUi::step on a surface of w columns and h rows with e queued: copy the
\* height to shared.term_height, process the queue, return QUIT if asked to,
\* move the focus, lay out and render.
step(d, S, e, w, h, checks, ok) ==
    CHOOSE R \in {
        IF S1.proc # "running" THEN S1
        ELSE IF S1.shared.quit THEN [S1 EXCEPT !.proc = "exited"]
        ELSE DocumentWidget_render(
                 d, [S1 EXCEPT !.focus = IF S1.shared.searching THEN "search"
                                         ELSE "doc"],
                 w, doc_height(S1.shared, S1.search))
        : S1 \in {deliver(d, [S EXCEPT !.shared.term_height = h], e, checks, ok)}
      } : TRUE

\* create_ui on an input stream and a terminal size, and the first step,
\* which the event loop takes before it waits for input.
Init ==
    \E i \in 1..Len(Inputs), w \in 1..MaxWidth, h \in 2..MaxTermHeight :
        LET d == Flowed(DocumentNew(Inputs[i]))
            S0 == [view |-> NewView(d, w, h), search |-> NewSearch(d),
                   shared |-> [searching |-> FALSE, term_height |-> h,
                               quit |-> FALSE],
                   last_error |-> None, search_activate_line |-> 0,
                   focus |-> "doc", proc |-> "running", opened |-> << >>]
            S1 == step(d, S0, [kind |-> "None", key |-> "", c |-> "",
                               ctrl |-> FALSE, s |-> << >>],
                       w, h, FALSE, TRUE)
        IN  /\ input = Inputs[i]
            /\ doc = d
            /\ view = S1.view
            /\ search = S1.search
            /\ shared = S1.shared
            /\ last_error = S1.last_error
            /\ search_activate_line = S1.search_activate_line
            /\ focus = S1.focus
            /\ proc = S1.proc
            /\ paged_only = TRUE
            /\ line_before_search = view.line

\* The keys DocumentWidget::process_key pages on, met by the document pane.
IsPagingKey(e) ==
    /\ focus = "doc"
    /\ e.kind = "Key"
    /\ e.key \in {"Up", "Down"} \/ (e.key = "Char" /\ e.c \in {" ", "b"})

\* The key '/' met by the document pane, which passes it on to MainWidget.
OpensSearch(e) ==
    /\ focus = "doc"
    /\ e.kind = "Key"
    /\ e.key = "Char" /\ e.c = "/"

\* One turn of the event loop: the input e arrives, is queued, and step runs
\* on a surface of w columns and h rows. checks: the build has overflow
\* checks; ok: the opener, if called, succeeds.
Turn(e, w, h, checks, ok) ==
    /\ proc = "running"
    /\ \E S1 \in {step(doc, St, e, w, h, checks, ok)} :
           /\ view' = S1.view
           /\ search' = S1.search
           /\ shared' = S1.shared
           /\ last_error' = S1.last_error
           /\ search_activate_line' = S1.search_activate_line
           /\ focus' = S1.focus
           /\ proc' = S1.proc
    /\ paged_only' = (paged_only /\ IsPagingKey(e))
    /\ line_before_search' = IF OpensSearch(e) THEN view.line
                             ELSE line_before_search
    /\ UNCHANGED << doc, input >>

KeyEvent(key, c, ctrl) ==
    [kind |-> "Key", key |-> key, c |-> c, ctrl |-> ctrl, s |-> << >>]

\* Up, Down: scrolling (where the sum of forward can overflow) or selection.
KeyArrow(key) ==
    \E checks \in BOOLEAN :
        Turn(KeyEvent(key, "", FALSE), view.width, shared.term_height, checks, TRUE)

\* Enter: closes the search, or opens the selected link with an opener that
\* succeeds or fails.
KeyEnter ==
    \E ok \in BOOLEAN :
        Turn(KeyEvent("Enter", "", FALSE), view.width, shared.term_height, FALSE, ok)

\* Escape, Backspace
KeyOther(key) ==
    Turn(KeyEvent(key, "", FALSE), view.width, shared.term_height, FALSE, TRUE)

\* An unmodified (or shifted) character; the query is kept within MaxQuery.
KeyChar(c) ==
    /\ focus = "search" => c \in QueryChars /\ Len(search.query) < MaxQuery
    /\ \E checks \in BOOLEAN :
           Turn(KeyEvent("Char", c, FALSE), view.width, shared.term_height,
                checks, TRUE)

KeyCtrlC ==
    Turn(KeyEvent("Char", "c", TRUE), view.width, shared.term_height, FALSE, TRUE)

Paste(s) ==
    /\ focus = "search" => Len(search.query) + Len(s) <= MaxQuery
    /\ Turn([kind |-> "Paste", key |-> "", c |-> "", ctrl |-> FALSE, s |-> s],
            view.width, shared.term_height, FALSE, TRUE)

\* The terminal is resized to w columns and h rows.
Resize(w, h) ==
    /\ << w, h >> # << view.width, shared.term_height >>
    /\ Turn([kind |-> "Resized", key |-> "", c |-> "", ctrl |-> FALSE, s |-> << >>],
            w, h, FALSE, TRUE)

Next ==
    \/ \E key \in {"Up", "Down"} : KeyArrow(key)
    \/ KeyEnter
    \/ \E key \in {"Escape", "Backspace"} : KeyOther(key)
    \/ \E c \in KeyChars : KeyChar(c)
    \/ KeyCtrlC
    \/ \E s \in PasteStrings : Paste(s)
    \/ \E w \in 1..MaxWidth, h \in 2..MaxTermHeight : Resize(w, h)

Spec == Init /\ [][Next]_vars

\* The end of AteUi::step, after the queue is drained: return QUIT if asked
\* to, move the focus, lay out and render on w columns.
step_end(d, S1, w) ==
    IF S1.proc # "running" THEN S1
    ELSE IF S1.shared.quit THEN [S1 EXCEPT !.proc = "exited"]
    ELSE DocumentWidget_render(
             d, [S1 EXCEPT !.focus = IF S1.shared.searching THEN "search"
                                     ELSE "doc"],
             w, doc_height(S1.shared, S1.search))

\* '/' and the character c are queued by queue_event, as tests::press_keys
\* queues its keys, and one step drains both while the document pane has the
\* focus: S1 is the state after '/', S2 the state after c, both delivered to
\* the document pane, S3 the state step returns in.
SlashThenChar(c) ==
    /\ proc = "running"
    /\ focus = "doc"
    /\ \E checks \in BOOLEAN :
       \E S1 \in {deliver(doc, St, KeyEvent("Char", "/", FALSE), checks, TRUE)} :
       \E S2 \in {IF S1.proc = "running"
                  THEN deliver(doc, S1, KeyEvent("Char", c, FALSE), checks, TRUE)
                  ELSE S1} :
       \E S3 \in {step_end(doc, S2, view.width)} :
           /\ view' = S3.view
           /\ search' = S3.search
           /\ shared' = S3.shared
           /\ last_error' = S3.last_error
           /\ search_activate_line' = S3.search_activate_line
           /\ focus' = S3.focus
           /\ proc' = S3.proc
           /\ line_before_search' = IF c = "/" THEN S1.view.line ELSE view.line
    /\ paged_only' = FALSE
    /\ UNCHANGED << doc, input >>

\* The keys of a driver like tests::Context, which works on a surface of
\* fixed size and queues key presses only, one or two before a step.
QueuedNext ==
    \/ \E key \in {"Up", "Down"} : KeyArrow(key)
    \/ KeyEnter
    \/ \E key \in {"Escape", "Backspace"} : KeyOther(key)
    \/ \E c \in KeyChars : KeyChar(c)
    \/ KeyCtrlC
    \/ \E c \in KeyChars : SlashThenChar(c)

\* The session when its driver may queue two keys before a step.
QueuedSpec == Init /\ [][QueuedNext]_vars

\* ------------------------------------------------------------------ paging

\* The row forward(n) is specified to leave the view on.
ForwardTarget(v, n) ==
    Min(Max(0, Len(v.lines) - v.height), v.line + Max(1, n))

\* C1: DocumentView.forward(n), for every n the document pane calls it with
\* (1 for Down, height - 2 for Space, which is 0 on a page of two rows and
\* wraps to the largest usize on a page of one row in a build without
\* overflow checks) and every view the session reaches, sets line to
\* min(max(0, len(lines) - height), line + max(1, n)).
C1_ForwardSetsLine ==
    (proc = "running" /\ focus = "doc") =>
        \A checks \in BOOLEAN :
            /\ LET S1 == CallForward(St, 1, checks)
               IN  /\ S1.proc = "running"
                   /\ S1.view.line = ForwardTarget(view, 1)
            /\ (checks => view.height >= 2) =>
                   LET n == WrapSub(view.height, 2)
                       S1 == CallForward(St, n, checks)
                   IN  /\ S1.proc = "running"
                       /\ S1.view.line = ForwardTarget(view, n)

\* The view after one paging key, for the outcomes in which the process
\* keeps running.
PagedViews(keys) ==
    { r.st.view : r \in { x \in { DocumentWidget_process_key(St, e, checks) :
                                      e \in keys, checks \in BOOLEAN } :
                              x.st.proc = "running" } }

ForwardKeys == {KeyEvent("Down", "", FALSE), KeyEvent("Char", " ", FALSE)}

BackwardKeys == {KeyEvent("Up", "", FALSE), KeyEvent("Char", "b", FALSE)}

\* C2: from line 0, under paging keys only (no highlight, no resize), line
\* stays within 0 .. max(0, len(lines) - height); paging forward at the last
\* full page leaves line there, and paging backward at line 0 leaves it at 0.
C2_PagingStaysInRange ==
    (paged_only /\ proc = "running") =>
        LET last_page == Max(0, Len(view.lines) - view.height)
        IN  /\ view.line \in 0..last_page
            /\ view.line = last_page =>
                   \A v \in PagedViews(ForwardKeys) : v.line = last_page
            /\ view.line = 0 =>
                   \A v \in PagedViews(BackwardKeys) : v.line = 0

\* C3: in every reachable state of the session, view.line <= len(view.lines).
C3_LineWithinCache == view.line <= Len(view.lines)

\* ------------------------------------------------------- what moves the line

\* A turn in which the document pane pages.
PagingTurn ==
    /\ focus = "doc"
    /\ \/ \E key \in {"Up", "Down"} : KeyArrow(key)
       \/ KeyChar(" ")
       \/ KeyChar("b")

\* A turn that can reach Search::set_selected_idx and, through it, highlight:
\* n, N, / and Enter met by MainWidget; arrows and query edits met by the
\* search pane.
SelectionTurn ==
    \/ /\ focus = "doc"
       /\ KeyChar("n") \/ KeyChar("N") \/ KeyChar("/") \/ KeyEnter
    \/ /\ focus = "search"
       /\ \/ \E key \in {"Up", "Down"} : KeyArrow(key)
          \/ \E c \in QueryChars : KeyChar(c)
          \/ KeyOther("Backspace")
          \/ \E s \in PasteStrings : Paste(s)

\* The link the search has selected.
SelectedLink(d, sr) == d.links[sr.matches[Unwrap(sr.selected_idx) + 1] + 1]

\* The turn left the view as highlight leaves it when it scrolls: the
\* selected link highlighted and its row three below the top (or the top).
HighlightDriven ==
    /\ IsSome(search'.selected_idx)
    /\ Unwrap(search'.selected_idx) < Len(search'.matches)
    /\ LET link == SelectedLink(doc, search')
       IN  /\ view'.highlights = << << link.start, link.end >> >>
           /\ view'.line = SatSub(find_line(view, link.start), 3)

\* Escape met by the search pane.
CancelTurn == focus = "search" /\ KeyOther("Escape")

\* C4, as stated: view.line is changed only by paging or by highlight-driven
\* navigation; every other operation, cancel_search among them, leaves it
\* unchanged.
C4_LineChangesOnlyByPagingOrHighlight ==
    [][view'.line # view.line =>
           PagingTurn \/ (SelectionTurn /\ HighlightDriven)]_vars

\* C4, amended: view.line is changed only by paging, by highlight-driven
\* navigation, or by cancel_search, which sets it to the row saved when the
\* search was opened; set_size, close_search, open_search without a match,
\* query edits that select nothing and a failed open leave it unchanged.
C4_LineChangesAlsoByCancel ==
    [][view'.line # view.line =>
           \/ PagingTurn
           \/ SelectionTurn /\ HighlightDriven
           \/ CancelTurn /\ view'.line = search_activate_line]_vars

\* The search pane has the focus over a view scrolled away from the row saved
\* at open_search, so that cancel_search moves the line back to it.
C4_Witness ==
    /\ proc = "running"
    /\ focus = "search"
    /\ search_activate_line # view.line
    /\ cancel_search(St).view.line = search_activate_line

\* --------------------------------------------------------------- highlight

\* The views select_next and select_prev leave, with the link each selected.
Selections ==
    { sv \in { select_next(doc, search_mut(St)), select_prev(doc, search_mut(St)) } :
          /\ IsSome(sv.search.selected_idx)
          /\ Unwrap(sv.search.selected_idx) < Len(sv.search.matches) }

\* C5: after highlight(start, end), as the selection of a link calls it, for
\* every page height >= 1 and every prior scroll position the Line holding
\* `start` is inside the page: line <= find_line(start) < line + height.
C5_HighlightIsVisible ==
    proc = "running" =>
        \A sv \in Selections :
            LET f == find_line(sv.view, SelectedLink(doc, sv.search).start)
            IN  sv.view.line <= f /\ f < sv.view.line + sv.view.height

\* C6: highlight(start, end), with f the index of the Line holding start,
\* leaves line unchanged if line + 3 <= f and f + 3 <= line + height, and
\* otherwise sets it to max(0, f - 3); it changes neither width, height nor
\* the line cache.
C6_AutoScrollRule ==
    \A i \in 1..Len(doc.links) :
        LET link == doc.links[i]
            f == find_line(view, link.start)
            v == highlight(view, link.start, link.end)
        IN  /\ v.line = IF view.line + 3 <= f /\ f + 3 <= view.line + view.height
                        THEN view.line
                        ELSE Max(0, f - 3)
            /\ v.highlights = << << link.start, link.end >> >>
            /\ v.width = view.width
            /\ v.height = view.height
            /\ v.lines = view.lines

\* A view scrolled below the top on which highlighting some link keeps the
\* line (its row has three rows of context on both sides) and highlighting
\* another one scrolls.
C6_Witness ==
    /\ proc = "running"
    /\ view.line > 0
    /\ \E i, j \in 1..Len(doc.links) :
           LET f == find_line(view, doc.links[i].start)
               g == find_line(view, doc.links[j].start)
           IN  /\ view.line + 3 <= f /\ f + 3 <= view.line + view.height
               /\ highlight(view, doc.links[i].start, doc.links[i].end).line = view.line
               /\ g < view.line + 3
               /\ highlight(view, doc.links[j].start, doc.links[j].end).line
                      = Max(0, g - 3)
               /\ Max(0, g - 3) # view.line

\* C7: percent() is 0 if line = 0 or len(lines) <= height, 100 if
\* line = len(lines) - height, and floor(100 * line / (len(lines) - height))
\* otherwise, for every reachable line, len(lines) and height.
C7_PercentFormula ==
    percent(view) =
        IF view.line = 0 \/ Len(view.lines) <= view.height THEN 0
        ELSE IF view.line = Len(view.lines) - view.height THEN 100
        ELSE (100 * view.line) \div (Len(view.lines) - view.height)

\* ------------------------------------------------------------------ search

\* What a query edit of the search pane leaves: a typed character, a
\* backspace, a pasted string.
QueryEdits ==
    { push_query_char(doc, search_mut(St), c) : c \in QueryChars }
        \cup { pop_query_char(doc, search_mut(St)) }
        \cup { push_query_str(doc, search_mut(St), s) : s \in PasteStrings }

\* C8: on a query edit with matches before it, let p be the link index
\* selected before the edit (the first match's if nothing was selected); if
\* matches is non-empty afterwards, the selected match is the first one whose
\* link index is >= p, or the last match if there is none.
C8_SelectionStability ==
    (proc = "running" /\ focus = "search" /\ Len(search.matches) > 0) =>
        LET p == search.matches[UnwrapOr(search.selected_idx, 0) + 1]
        IN  \A sv \in QueryEdits :
                LET m == sv.search.matches
                    sel == sv.search.selected_idx
                IN  Len(m) > 0 =>
                        /\ IsSome(sel)
                        /\ Unwrap(sel) < Len(m)
                        /\ IF \E k \in 1..Len(m) : m[k] >= p
                           THEN /\ m[Unwrap(sel) + 1] >= p
                                /\ \A k \in 1..Unwrap(sel) : m[k] < p
                           ELSE Unwrap(sel) + 1 = Len(m)

\* The search pane has the focus with a link selected, and typing a character
\* filters that link out: one edit moves the selection to a later link, another
\* falls back to the last match.
C8_Witness ==
    /\ proc = "running"
    /\ focus = "search"
    /\ IsSome(search.selected_idx)
    /\ Len(search.matches) > 0
    /\ LET p == search.matches[Unwrap(search.selected_idx) + 1]
       IN  \E sv \in QueryEdits :
               /\ Len(sv.search.matches) > 0
               /\ SelectedLink(doc, sv.search) # SelectedLink(doc, search)
               /\ sv.search.matches[Unwrap(sv.search.selected_idx) + 1] > p

\* C9: after a query edit that leaves matches empty, selected is none.
C9_NoMatchNoSelection ==
    (proc = "running" /\ focus = "search") =>
        \A sv \in QueryEdits :
            Len(sv.search.matches) = 0 => sv.search.selected_idx = None

\* C10: with k >= 1 matches, select_next moves selected from i to (i + 1) mod k
\* and select_prev from i to (i - 1) mod k; with no selection select_next
\* selects 0 and select_prev selects k - 1.
C10_SelectWraps ==
    Len(search.matches) >= 1 =>
        LET k == Len(search.matches)
            sel == search.selected_idx
            next == select_next(doc, search_mut(St)).search
            prev == select_prev(doc, search_mut(St)).search
        IN  /\ next.matches = search.matches
            /\ prev.matches = search.matches
            /\ next.selected_idx =
                   IF IsSome(sel) THEN Some((Unwrap(sel) + 1) % k) ELSE Some(0)
            /\ prev.selected_idx =
                   IF IsSome(sel) THEN Some((Unwrap(sel) + k - 1) % k)
                   ELSE Some(k - 1)

\* Three or more matches with the last one selected: select_next wraps to 0.
C10_Witness ==
    /\ proc = "running"
    /\ Len(search.matches) >= 3
    /\ search.selected_idx = Some(Len(search.matches) - 1)
    /\ select_next(doc, search_mut(St)).search.selected_idx = Some(0)

\* ------------------------------------------------------- matches and highlight

\* The clusters of link i's text, bytes [start, end) of the document.
LinkText(d, i) == Slice(d.text, d.links[i + 1].start, d.links[i + 1].end)

\* C11: in every reachable state, matches is the ascending list of the
\* indices i of Document.links whose text [start, end) contains query as a
\* case-sensitive substring; with an empty query it lists all links in order.
C11_MatchesAreTheFilter ==
    LET m == search.matches
        q == search.query
    IN  /\ \A k \in 1..(Len(m) - 1) : m[k] < m[k + 1]
        /\ { m[k] : k \in 1..Len(m) } =
               { i \in 0..(Len(doc.links) - 1) :
                     \E off \in 0..(Len(LinkText(doc, i)) - Len(q)) :
                         \A k \in 1..Len(q) : LinkText(doc, i)[off + k] = q[k] }
        /\ q = << >> => m = [k \in 1..Len(doc.links) |-> k - 1]

\* The query "n" is typed: the links "bn" and "n\n" match, the empty link
\* and the link "N" do not.
C11_Witness ==
    /\ proc = "running"
    /\ search.query = << "n" >>
    /\ search.matches = << 0, 2 >>
    /\ LinkText(doc, 3) = << "N" >>

\* C12: in every reachable state highlights holds at most one range, and
\* whenever matches is non-empty and selected = i, highlights is exactly
\* [(links[matches[i]].start, links[matches[i]].end)].
C12_SelectionIsHighlighted ==
    /\ Len(view.highlights) <= 1
    /\ (Len(search.matches) > 0 /\ IsSome(search.selected_idx)) =>
           /\ Unwrap(search.selected_idx) < Len(search.matches)
           /\ LET link == SelectedLink(doc, search)
              IN  view.highlights = << << link.start, link.end >> >>

\* A match other than the first is selected while a query filters the links,
\* and its range is the highlight.
C12_Witness ==
    /\ proc = "running"
    /\ search.query # << >>
    /\ IsSome(search.selected_idx)
    /\ Unwrap(search.selected_idx) >= 1
    /\ Unwrap(search.selected_idx) < Len(search.matches)
    /\ view.highlights = << << SelectedLink(doc, search).start,
                               SelectedLink(doc, search).end >> >>

\* The byte range of link matches[i], as DocumentView::highlight receives it.
MatchRange(d, sr, i) ==
    << d.links[sr.matches[i + 1] + 1].start, d.links[sr.matches[i + 1] + 1].end >>

\* C13 as stated: when '/' opens the search, activate() selects index 0 of
\* the current matches whenever matches is non-empty and makes that match's
\* range the highlight; with no matches it selects nothing.
C13_ActivateSelectsFirst ==
    (proc = "running" /\ focus = "doc") =>
        LET S1 == open_search(doc, St)
        IN  IF Len(search.matches) > 0
            THEN /\ S1.search.selected_idx = Some(0)
                 /\ S1.view.highlights = << MatchRange(doc, search, 0) >>
            ELSE S1.search.selected_idx = search.selected_idx

\* C13 amended: when '/' opens the search and matches is non-empty,
\* activate() selects the match that is already selected, or index 0 if none
\* is, and makes its range the highlight; with no matches it leaves the
\* search and the view as they were.
C13_ActivateKeepsSelection ==
    (proc = "running" /\ focus = "doc") =>
        LET S1 == open_search(doc, St)
            i == UnwrapOr(search.selected_idx, 0)
        IN  /\ S1.shared.searching
            /\ S1.search_activate_line = view.line
            /\ IF Len(search.matches) > 0
               THEN /\ S1.search.selected_idx = Some(i)
                    /\ S1.search.matches = search.matches
                    /\ S1.view.highlights = << MatchRange(doc, search, i) >>
               ELSE S1.search = search /\ S1.view = view

\* The search is opened while a match other than the first is selected, and
\* that match stays selected.
C13_Witness ==
    /\ proc = "running"
    /\ focus = "doc"
    /\ Len(search.matches) > 1
    /\ IsSome(search.selected_idx)
    /\ Unwrap(search.selected_idx) >= 1
    /\ open_search(doc, St).search.selected_idx = search.selected_idx
    /\ open_search(doc, St).view.highlights =
           << MatchRange(doc, search, Unwrap(search.selected_idx)) >>

\* Enter as MainWidget::process_key handles it, with an opener that returns ok.
EnterKey(ok) == MainWidget_process_key(doc, St, KeyEvent("Enter", "", FALSE), ok).st

\* C14: open_selected(), reached by Enter in the document pane: if matches is
\* non-empty and nothing is selected, index 0 is selected and highlighted
\* first; the opener is then called exactly once, with the URI of
\* links[matches[selected]]. If matches is empty the opener is not called and
\* the call succeeds (no error is recorded, nothing changes).
C14_OpenSelected ==
    (proc = "running" /\ focus = "doc") =>
        \A ok \in BOOLEAN :
            LET S1 == EnterKey(ok)
            IN  IF Len(search.matches) = 0
                THEN /\ S1.opened = << >>
                     /\ S1.last_error = last_error
                     /\ S1.search = search /\ S1.view = view
                ELSE /\ S1.search.selected_idx = Some(UnwrapOr(search.selected_idx, 0))
                     /\ S1.search.matches = search.matches
                     /\ S1.view.highlights =
                            << MatchRange(doc, search, Unwrap(S1.search.selected_idx)) >>
                     /\ S1.opened = << SelectedLink(doc, S1.search).uri >>

\* Enter is pressed on a scrolled page with matches and no selection: the
\* first link is selected, highlighted and opened.
C14_Witness ==
    /\ proc = "running"
    /\ focus = "doc"
    /\ view.line >= 1
    /\ Len(search.matches) > 1
    /\ search.selected_idx = None
    /\ view.highlights = << >>
    /\ EnterKey(TRUE).opened = << doc.links[search.matches[1] + 1].uri >>
    /\ EnterKey(TRUE).search.selected_idx = Some(0)
    /\ EnterKey(TRUE).view.highlights = << MatchRange(doc, search, 0) >>

\* The step that processes Enter on the current terminal, with an opener
\* that returns ok.
EnterStep(ok) ==
    step(doc, St, KeyEvent("Enter", "", FALSE), view.width, shared.term_height,
         FALSE, ok)

\* C15 as stated: when the opener fails for Enter in the document pane, the
\* message is stored in last_error, quit is not set, the session goes on,
\* and the view's line and highlights are what they were before the key.
C15_OpenErrorChangesNothing ==
    (proc = "running" /\ focus = "doc" /\ Len(search.matches) > 0) =>
        LET F == EnterStep(FALSE)
        IN  /\ F.last_error = Some("open failed")
            /\ ~F.shared.quit
            /\ F.proc = "running"
            /\ F.view.line = view.line
            /\ F.view.highlights = view.highlights

\* C15 amended: when the opener fails for Enter in the document pane, the
\* message is stored in last_error, quit is not set, the session goes on,
\* and the search and the view are what the same key press leaves when the
\* opener succeeds: line and highlights as before the key if a link was
\* selected, the first match selected, highlighted and scrolled into view
\* if none was.
C15_OpenErrorIsRecovered ==
    (proc = "running" /\ focus = "doc" /\ Len(search.matches) > 0) =>
        LET F == EnterStep(FALSE)
            T == EnterStep(TRUE)
        IN  /\ F.last_error = Some("open failed")
            /\ T.last_error = last_error
            /\ ~F.shared.quit
            /\ F.proc = "running"
            /\ F.focus = "doc"
            /\ F.view = T.view
            /\ F.search = T.search
            /\ IF IsSome(search.selected_idx)
               THEN /\ F.view.line = view.line
                    /\ F.view.highlights = view.highlights
                    /\ F.search = search
               ELSE /\ F.search.selected_idx = Some(0)
                    /\ F.view.highlights = << MatchRange(doc, search, 0) >>
                    /\ F.view.line =
                           highlight(view, MatchRange(doc, search, 0)[1],
                                     MatchRange(doc, search, 0)[2]).line

\* An opener error has been recorded for an Enter that moved the page to the
\* first link, and the session is still taking input in the document pane.
C15_Witness ==
    /\ proc = "running"
    /\ focus = "doc"
    /\ ~shared.quit
    /\ last_error = Some("open failed")
    /\ search.selected_idx = Some(0)
    /\ Len(view.lines) > view.height

\* C16: Escape while the search is active cancels it and restores the
\* scroll position: whatever search keys (characters, Backspace, Up, Down,
\* paste) came between the '/' that opened the search and the Escape, after
\* the Escape searching is false and view.line is the value it had
\* immediately before that '/'.
C16_EscapeRestoresLine ==
    [][CancelTurn => (~shared'.searching /\ view'.line = line_before_search)]_vars

\* The search pane has the focus after a query was typed, and the selection
\* has scrolled the page away from the row it was on when '/' was pressed.
C16_Witness ==
    /\ proc = "running"
    /\ focus = "search"
    /\ shared.searching
    /\ search.query # << >>
    /\ line_before_search >= 1
    /\ view.line # line_before_search
    /\ cancel_search(St).view.line = line_before_search

\* C17: whenever searching is true at the moment a character key is
\* processed, the character is appended to the query and the matches are
\* filtered again, and the key map of the document pane and MainWidget does
\* not act on it; for a key that is alone in the queue and for a key queued
\* behind the '/' that opened the search and drained by the same step
\* (steps that end in a panic aside).
C17_SearchingCharsAreTyped ==
    [][\A c \in KeyChars :
           (((shared.searching /\ KeyChar(c)) \/ SlashThenChar(c))
                /\ proc' # "panicked") =>
               /\ search'.query = Append(search.query, c)
               /\ search'.matches = FilterLinks(doc, search'.query, 0)
               /\ ~shared'.quit]_vars

\* Events a driver may queue before it calls step again after QUIT.
LaterEvents ==
    { [kind |-> "None", key |-> "", c |-> "", ctrl |-> FALSE, s |-> << >>],
      KeyEvent("Enter", "", FALSE), KeyEvent("Escape", "", FALSE),
      KeyEvent("Down", "", FALSE), KeyEvent("Char", " ", FALSE),
      KeyEvent("Char", "/", FALSE), KeyEvent("Char", "n", FALSE) }

\* Once step has returned QUIT, every further call of step on this state
\* returns QUIT with quit still set, unless processing its event panics.
LaterStepsQuit ==
    proc = "exited" =>
        /\ shared.quit
        /\ \A e \in LaterEvents, checks \in BOOLEAN :
               LET S1 == step(doc, [St EXCEPT !.proc = "running"], e,
                              view.width, shared.term_height, checks, TRUE)
               IN  /\ S1.shared.quit
                   /\ S1.proc \in {"exited", "panicked"}

\* The step that processes the key c (with Ctrl held if ctrl) on the current
\* terminal.
CharStep(c, ctrl) ==
    step(doc, St, KeyEvent("Char", c, ctrl), view.width, shared.term_height,
         FALSE, TRUE)

RenderedFrom(L) ==
    Emitted(render_lines(doc, view, L, view.height, << >>), 1, DefaultAttributes)

\* The default style with every change of doc.attrs at an offset <= byte
\* applied in order.
StyleAt(d, byte) == ApplyPending(d.attrs, 0, byte, DefaultAttributes).attributes

\* C19: line snapshots make rendering independent of the start row: for the
\* width of the view, every row L of the line cache and every cluster
\* render_lines emits when started at L without highlights, the style in
\* effect at the cluster is the default style with every change of
\* Document.attrs at an offset <= the cluster's start byte applied in order,
\* wherever the changes are placed, the offset of a line feed included.
C19_RenderIndependentOfStartLine ==
    (proc = "running" /\ view.height > 0) =>
        \A L \in 0..(Len(view.lines) - 1) :
            \A k \in 1..Len(RenderedFrom(L)) :
                RenderedFrom(L)[k].attributes = StyleAt(doc, RenderedFrom(L)[k].byte)

\* The text of the rendering family: two rows, "ab" and "c".
RenderText == << "a", "b", "\n", "c" >>

\* The SGR sequences of the family: reverse on, reverse off, reset.
RenderSgrs == { ActSgrInverse("on"), ActSgrInverse("off"), ActSgrReset }

\* The stream that prints RenderText with sgrs[k].act arriving just before
\* the cluster at offset sgrs[k].pos; i is the cluster and k the SGR the
\* stream is at.
RECURSIVE RenderInput(_, _, _)
RenderInput(sgrs, i, k) ==
    IF k <= Len(sgrs) /\ sgrs[k].pos < i
    THEN << sgrs[k].act >> \o RenderInput(sgrs, i, k + 1)
    ELSE IF i > Len(RenderText) THEN << >>
    ELSE << IF RenderText[i] = "\n" THEN ActLineFeed ELSE ActPrint(RenderText[i]) >>
         \o RenderInput(sgrs, i + 1, k)

\* A view of w columns and h rows on a document of the family, as
\* DocumentView::new makes it.
RenderInit ==
    \E n \in 0..MaxSgr :
    \E sgrs \in [1..n -> [pos : 0..(Len(RenderText) - 1), act : RenderSgrs]] :
    \E w \in 1..MaxWidth, h \in 1..MaxRows :
        /\ \A k \in 1..(n - 1) : sgrs[k].pos <= sgrs[k + 1].pos
        /\ input = RenderInput(sgrs, 1, 1)
        /\ doc = Flowed(DocumentNew(input))
        /\ view = NewView(doc, w, h)
        /\ search = NewSearch(doc)
        /\ shared = [searching |-> FALSE, term_height |-> h + 1, quit |-> FALSE]
        /\ last_error = None
        /\ search_activate_line = 0
        /\ focus = "doc"
        /\ proc = "running"
        /\ paged_only = TRUE
        /\ line_before_search = 0

\* DocumentView::highlight on the range [s, e)
HighlightRange(s, e) ==
    /\ view' = highlight(view, s, e)
    /\ UNCHANGED << doc, search, shared, last_error, search_activate_line,
                    focus, proc, paged_only, line_before_search, input >>

\* DocumentView::forward(1) and DocumentView::backward(1)
ScrollRow(down) ==
    /\ view' = IF down THEN forward(view, 1) ELSE backward(view, 1)
    /\ UNCHANGED << doc, search, shared, last_error, search_activate_line,
                    focus, proc, paged_only, line_before_search, input >>

RenderNext ==
    \/ \E s \in 0..(Len(RenderText) - 1), e \in 1..Len(RenderText) :
           s < e /\ HighlightRange(s, e)
    \/ \E down \in BOOLEAN : ScrollRow(down)

\* Views on the rendering family under highlighting and scrolling.
RenderSpec == RenderInit /\ [][RenderNext]_vars

\* The clusters DocumentWidget::render draws for the view, with the
\* highlights hl.
Rendered(hl) ==
    Emitted(render_lines(doc, view, view.line, view.height, hl), 1,
            DefaultAttributes)

\* C20: highlight inversion symmetry: for the highlight range [s, e) and
\* every rendered cluster that starts at a byte b in [s, e), the reverse
\* state the cluster is drawn with is the negation of the reverse state it is
\* drawn with when the same rows are rendered without a highlight; for
\* reverse-on, reverse-off and reset changes placed anywhere before, inside
\* and at the borders of the range, and for ranges that begin before the
\* first rendered row.
C20_HighlightInvertsReverse ==
    view.highlights # << >> =>
        LET lit == Rendered(view.highlights)
            plain == Rendered(<< >>)
            s == view.highlights[1][1]
            e == view.highlights[1][2]
        IN  /\ Len(lit) = Len(plain)
            /\ \A k \in 1..Len(lit) :
                   /\ lit[k].byte = plain[k].byte
                   /\ (s <= lit[k].byte /\ lit[k].byte < e) =>
                          lit[k].attributes.reverse = ~plain[k].attributes.reverse

\* The range [0, 4) begins before the first rendered row; the document turns
\* reverse on before that row and resets inside the range, and the cluster
\* drawn is reversed without the highlight and plain with it.
C20_Witness ==
    /\ view.highlights = << << 0, 4 >> >>
    /\ view.line >= 1
    /\ Len(doc.attrs) = 3
    /\ doc.attrs[2].change = ReverseChange(TRUE)
    /\ doc.attrs[3].change = ResetChange
    /\ \E k \in 1..Len(Rendered(<< >>)) :
           /\ Rendered(<< >>)[k].attributes.reverse
           /\ ~Rendered(view.highlights)[k].attributes.reverse

\* The locals of render_lines after DocumentWidget::render has drawn the view.
Pass == render_pass(doc, view, view.line, view.height, view.highlights)

\* The offsets of the clusters a pass has drawn, in the order drawn.
DrawnBytes(changes) ==
    LET drawn == Emitted(changes, 1, DefaultAttributes)
    IN  [k \in 1..Len(drawn) |-> drawn[k].byte]

\* The position in changes of the Text of the cluster at byte b.
TextAt(changes, b) ==
    CHOOSE p \in 1..Len(changes) : changes[p].kind = "Text" /\ changes[p].byte = b

DocActions ==
    { ActPrint("a"), ActPrint("W"), ActLineFeed,
      ActSgrReset, ActSgrInverse("on"), ActSgrFont,
      ActSetHyperlink("u0"), ActSetHyperlink("u1"), ActSetHyperlink("") }

\* create_ui on a stream of up to MaxInput actions and a page of w columns
\* and h rows; a panic in Document::new ends the process.
DocInit ==
    \E n \in 0..MaxInput :
    \E inp \in [1..n -> DocActions] :
    \E w \in 1..MaxWidth, h \in 1..MaxRows :
        /\ input = inp
        /\ doc = Flowed(DocumentNew(inp))
        /\ view = NewView(doc, w, h)
        /\ search = NewSearch(doc)
        /\ shared = [searching |-> FALSE, term_height |-> h + 1, quit |-> FALSE]
        /\ last_error = None
        /\ search_activate_line = 0
        /\ focus = "doc"
        /\ proc = IF doc.panicked THEN "panicked" ELSE "running"
        /\ paged_only = TRUE
        /\ line_before_search = 0

\* DocumentView::set_size(w, h)
SetSize(w, h) ==
    /\ proc = "running"
    /\ << w, h >> # << view.width, view.height >>
    /\ view' = set_size(view, doc, w, h)
    /\ UNCHANGED << doc, search, shared, last_error, search_activate_line,
                    focus, proc, paged_only, line_before_search, input >>

DocNext ==
    \/ \E w \in 1..MaxWidth, h \in 1..MaxRows : SetSize(w, h)
    \/ \E down \in BOOLEAN : proc = "running" /\ ScrollRow(down)

\* Views on the document family under resizing and scrolling.
DocSpec == DocInit /\ [][DocNext]_vars

\* The offset of cluster n + 1 of text (of the end of text for n = Len(text)).
ClusterByte(text, n) == TextLen(SubSeq(text, 1, n))

\* The clusters of row k of the view: those from lines[k].start_byte up to
\* the start of the next row (the end of the text for the last row).
RowClusters(k) ==
    Slice(doc.text, view.lines[k].start_byte,
          IF k < Len(view.lines) THEN view.lines[k + 1].start_byte
          ELSE TextLen(doc.text))

\* The clusters of a row that take cells: all but the line feed.
RowCells(k) == SelectSeq(RowClusters(k), LAMBDA g : g # "\n")

RECURSIVE SumCells(_)
SumCells(row) ==
    IF row = << >> THEN 0 ELSE GraphemeCells(Head(row)) + SumCells(Tail(row))

\* C22: for every text and width, every Line of flow starts at a cluster
\* boundary (no cluster is split across rows), and the widths of the
\* clusters of each row sum to at most width, except for a row that holds
\* exactly one cluster wider than width.
C22_RowsFitWidth ==
    proc = "running" =>
        \A k \in 1..Len(view.lines) :
            /\ \E n \in 0..Len(doc.text) :
                   view.lines[k].start_byte = ClusterByte(doc.text, n)
            /\ \/ SumCells(RowCells(k)) <= view.width
               \/ Len(RowCells(k)) = 1 /\ GraphemeCells(RowCells(k)[1]) > view.width

\* A page of one column shows a text with a wide cluster: the wide cluster
\* has a row of its own, and a narrow cluster after it is wrapped to the next.
C22_Witness ==
    /\ proc = "running"
    /\ view.width = 1
    /\ doc.text = << "W", "a" >>
    /\ \E k \in 1..Len(view.lines) : RowCells(k) = << "W" >>
    /\ RowCells(Len(view.lines)) = << "a" >>

RECURSIVE ConcatRows(_)
ConcatRows(k) ==
    IF k > Len(view.lines) THEN << >> ELSE RowClusters(k) \o ConcatRows(k + 1)

\* The clusters one pass of render_lines draws from row 0 on a page as high
\* as the line cache.
WholeText ==
    LET drawn == Emitted(render_lines(doc, view, 0, Len(view.lines), << >>), 1,
                         DefaultAttributes)
    IN  [k \in 1..Len(drawn) |-> drawn[k].cluster]

\* C23: round trip of reflow: for every text and width the Line cache
\* partitions the text: lines[0].start_byte = 0, the start bytes are
\* non-decreasing and at most len(text), and the slices between consecutive
\* start bytes (the last up to the end of the text), concatenated, are the
\* text; and the clusters rendered for all rows are the text without its
\* line feeds.
C23_ReflowRoundTrip ==
    proc = "running" =>
        /\ view.lines[1].start_byte = 0
        /\ \A k \in 1..(Len(view.lines) - 1) :
               view.lines[k].start_byte <= view.lines[k + 1].start_byte
        /\ \A k \in 1..Len(view.lines) : view.lines[k].start_byte <= TextLen(doc.text)
        /\ ConcatRows(1) = doc.text
        /\ WholeText = SelectSeq(doc.text, LAMBDA g : g # "\n")

\* A text with a line feed in it is wrapped as well: the cache has a row for
\* the wrap and one for the line feed.
C23_Witness ==
    /\ proc = "running"
    /\ doc.text = << "a", "a", "\n" >>
    /\ view.width = 1
    /\ Len(view.lines) = 3
    /\ view.lines[3].start_byte = TextLen(doc.text)
    /\ WholeText = << "a", "a" >>

\* The row breaks ("\r\n") among the changes of a pass.
RowBreaks(changes) == SelectSeq(changes, LAMBDA c : c.kind = "Text" /\ c.byte < 0)

\* C24: render_lines started at row L with a height h >= 1 produces at most
\* min(h, len(lines) - L) rows: it pushes at most min(h, len(lines) - L) - 1
\* row breaks and draws no cluster of a row beyond min(len(lines), L + h) - 1,
\* also when L + h exceeds len(lines).
C24_RenderStopsAtPageEnd ==
    (proc = "running" /\ view.height >= 1 /\ view.line < Len(view.lines)) =>
        LET rows == Min(view.height, Len(view.lines) - view.line)
            changes == render_lines(doc, view, view.line, view.height,
                                    view.highlights)
            bytes == DrawnBytes(changes)
        IN  /\ Len(RowBreaks(changes)) <= rows - 1
            /\ view.line + rows < Len(view.lines) =>
                   \A n \in 1..Len(bytes) :
                       bytes[n] < view.lines[view.line + rows + 1].start_byte

\* A page of two rows on a cache of three: the pass breaks the row once and
\* stops after the second row, before the third cluster of the text.
C24_Witness ==
    /\ proc = "running"
    /\ view.height = 2
    /\ Len(view.lines) = 3
    /\ view.line = 0
    /\ Len(RowBreaks(Pass.changes)) = 1
    /\ Len(DrawnBytes(Pass.changes)) = 2
    /\ Len(SelectSeq(doc.text, LAMBDA g : g # "\n")) = 3

\* The text Document::new has pushed when the first n actions of the input
\* are parsed.
Printed(n) ==
    LET s == SelectSeq(SubSeq(input, 1, n),
                       LAMBDA a : a.t \in {"Print", "LineFeed"})
    IN  [k \in 1..Len(s) |-> IF s[k].t = "LineFeed" THEN "\n" ELSE s[k].arg]

\* C25: Document::new yields exactly one LinkRange per OSC 8 command that
\* carries a URI, in input order: its start is the length of the text when
\* the command is parsed, its end the length of the text at the next OSC 8
\* command (with or without a URI) or at the end of the input. Ranges are
\* neither merged nor dropped: the same URI opened twice gives two ranges, an
\* open followed at once by a close gives a range of length zero.
C25_OneLinkRangePerOpen ==
    proc = "running" =>
        LET osc == { i \in 1..Len(input) : input[i].t = "SetHyperlink" }
            opens == { i \in osc : input[i].arg # "" }
            parsed_at_end(i) ==
                IF \E j \in osc : j > i
                THEN (CHOOSE j \in osc : j > i /\ \A k \in osc : k > i => j <= k) - 1
                ELSE Len(input)
            rank(i) == Cardinality({ j \in opens : j <= i })
        IN  /\ Len(doc.links) = Cardinality(opens)
            /\ \A i \in opens :
                   doc.links[rank(i)] =
                       [start |-> TextLen(Printed(i - 1)),
                        uri |-> input[i].arg,
                        end |-> TextLen(Printed(parsed_at_end(i)))]

\* The same URI is opened twice in a row before any text and never closed:
\* a range of length zero and a second range up to the end of the input.
C25_Witness ==
    /\ proc = "running"
    /\ input = << ActSetHyperlink("u0"), ActSetHyperlink("u0"), ActPrint("W") >>
    /\ doc.links = << [start |-> 0, uri |-> "u0", end |-> 0],
                      [start |-> 0, uri |-> "u0", end |-> 3] >>

\* C26: Document.attrs starts with the entry (0, reset) and has one further
\* entry per supported SGR sequence of the input, in input order, each with
\* the change of its sequence and with the length of the text when it was
\* parsed as its offset; the offsets are non-decreasing and lie in
\* [0, len(text)].
C26_AttrsFollowInput ==
    proc = "running" =>
        LET sgr == { i \in 1..Len(input) :
                       input[i].t \in {"SgrReset", "SgrInverse", "SgrForeground"} }
            rank(i) == 1 + Cardinality({ j \in sgr : j <= i })
            change(a) == IF a.t = "SgrReset" THEN ResetChange
                         ELSE IF a.t = "SgrInverse" THEN ReverseChange(a.arg = "on")
                         ELSE ForegroundChange(a.arg)
        IN  /\ Len(doc.attrs) = 1 + Cardinality(sgr)
            /\ doc.attrs[1] = [offset |-> 0, change |-> ResetChange]
            /\ \A i \in sgr :
                   doc.attrs[rank(i)] = [offset |-> TextLen(Printed(i - 1)),
                                         change |-> change(input[i])]
            /\ \A k \in 1..Len(doc.attrs) :
                   /\ doc.attrs[k].offset \in 0..TextLen(doc.text)
                   /\ k > 1 => doc.attrs[k - 1].offset <= doc.attrs[k].offset

\* Two sequences parsed at the same place after a wide cluster, the second
\* at the end of the text: three entries, the last two at offset 3.
C26_Witness ==
    /\ proc = "running"
    /\ input = << ActPrint("W"), ActSgrInverse("on"), ActSgrReset >>
    /\ Len(doc.attrs) = 3
    /\ doc.attrs[2].offset = 3
    /\ doc.attrs[3] = [offset |-> 3, change |-> ResetChange]

\* C27: an SGR sequence without an attribute mapping (vertical alignment,
\* underline color, font, overline) anywhere in the input neither crashes nor
\* aborts the construction of the document: the process goes on and the rest
\* of the stream is parsed, so the text of the document is everything the
\* input prints.
C27_UnsupportedSgrIsSurvived ==
    (\E i \in 1..Len(input) : input[i] = ActSgrFont) =>
        /\ proc # "panicked"
        /\ ~doc.panicked
        /\ doc.text = Printed(Len(input))

\* C28: set_size(width, height) always sets height; it replaces the line
\* cache by the flow of the text at the new width if and only if width
\* differs from the width of the view (with the same width the cache stays as
\* it is), and in every case leaves line and highlights unchanged. forward,
\* backward and highlight never touch the line cache.
C28_SetSizeFrame ==
    /\ \A w \in 1..MaxWidth :
           LET cache == IF w = view.width THEN view.lines
                        ELSE flow(w, doc.text, doc.attrs)
           IN  \A h \in 1..MaxRows :
                   set_size(view, doc, w, h) =
                       [view EXCEPT !.height = h, !.width = w, !.lines = cache]
    /\ \A n \in 0..MaxRows :
           /\ forward(view, n) = [view EXCEPT !.line = forward(view, n).line]
           /\ backward(view, n) = [view EXCEPT !.line = backward(view, n).line]
    /\ \A s \in 0..TextLen(doc.text), e \in 0..TextLen(doc.text) :
           LET v == highlight(view, s, e)
           IN  v = [view EXCEPT !.line = v.line, !.highlights = v.highlights]

\* A scrolled view with a highlight: set_size to another width gives another
\* cache, with fewer or more rows, and the row and the highlight stay.
C28_Witness ==
    /\ view.line >= 1
    /\ view.highlights # << >>
    /\ \E w \in 1..MaxWidth :
           /\ w # view.width
           /\ Len(set_size(view, doc, w, view.height).lines) # Len(view.lines)
           /\ set_size(view, doc, w, view.height).line = view.line

\* The changes DocumentWidget::render pushes when it leaves the view v.
RenderOps(d, v) ==
    << [kind |-> "ClearScreen"], [kind |-> "CursorPosition", x |-> 0, y |-> 0] >>
        \o render_lines(d, v, v.line, v.height, v.highlights)

\* C29: rendering the document pane twice in a row with no event in between
\* pushes the same changes both times and leaves line, highlights and the
\* line cache of the view as they were: a render at the size of the view
\* changes nothing and a second one pushes the changes of the first, and
\* after a render at any other size a second render at that size changes
\* nothing.
C29_RenderIsIdempotent ==
    /\ LET R1 == DocumentWidget_render(doc, St, view.width, view.height)
           R2 == DocumentWidget_render(doc, R1, view.width, view.height)
       IN  R1.proc = "running" =>
               /\ R1.view = view
               /\ R2.view = view
               /\ RenderOps(doc, R2.view) = RenderOps(doc, R1.view)
    /\ \A w \in 1..MaxWidth, h \in 1..MaxRows :
           LET R1 == DocumentWidget_render(doc, St, w, h)
           IN  R1.proc = "running" => DocumentWidget_render(doc, R1, w, h) = R1

\* A scrolled view with a highlight of which the second row of the page
\* shows a part is rendered again at its own size.
C29_Witness ==
    /\ view.line >= 1
    /\ view.height = 2
    /\ view.highlights # << >>
    /\ DocumentWidget_render(doc, St, view.width, view.height).view = view
    /\ Len(Rendered(view.highlights)) >= 2
    /\ Rendered(view.highlights) # Rendered(<< >>)

\* C30: render_lines takes a sorted list of several disjoint highlight
\* ranges: every cluster other than a line feed that is drawn and whose
\* start byte lies in one of the ranges is drawn with the reverse attribute
\* inverted, also the first cluster of a range that begins exactly where the
\* range before it ends.
C30_EveryRangeIsInverted ==
    \A s1 \in 0..TextLen(doc.text), e1 \in 0..TextLen(doc.text),
       s2 \in 0..TextLen(doc.text), e2 \in 0..TextLen(doc.text) :
        (s1 < e1 /\ e1 <= s2 /\ s2 < e2) =>
            LET lit == Rendered(<< << s1, e1 >>, << s2, e2 >> >>)
                plain == Rendered(<< >>)
            IN  /\ Len(lit) = Len(plain)
                /\ \A k \in 1..Len(lit) :
                       /\ lit[k].byte = plain[k].byte
                       /\ (\/ s1 <= lit[k].byte /\ lit[k].byte < e1
                           \/ s2 <= lit[k].byte /\ lit[k].byte < e2) =>
                              lit[k].attributes.reverse = ~plain[k].attributes.reverse

C32_RenderFollowsFlow ==
    (proc = "running" /\ view.line < Len(view.lines)) =>
        LET changes == Pass.changes
            last == Min(Len(view.lines), view.line + view.height) - 1
            end == IF last + 1 < Len(view.lines)
                   THEN view.lines[last + 2].start_byte
                   ELSE TextLen(doc.text)
        IN  /\ \A p \in 1..Len(changes) :
                   (changes[p].kind = "Text" /\ changes[p].byte >= 0) =>
                       LET row == view.line + Len(RowBreaks(SubSeq(changes, 1, p)))
                       IN  /\ view.lines[row + 1].start_byte <= changes[p].byte
                           /\ row + 1 < Len(view.lines) =>
                                  changes[p].byte < view.lines[row + 2].start_byte
            /\ { changes[p].byte : p \in { q \in 1..Len(changes) :
                     changes[q].kind = "Text" /\ changes[q].byte >= 0 } }
               = { ClusterByte(doc.text, n - 1) : n \in { m \in 1..Len(doc.text) :
                     /\ doc.text[m] # "\n"
                     /\ view.lines[view.line + 1].start_byte
                            <= ClusterByte(doc.text, m - 1)
                     /\ ClusterByte(doc.text, m - 1) < end } }

\* C33: the progress value of the status line is a percentage: in every
\* reachable state (after paging, scrolling to a selection, and resizes)
\* percent() is between 0 and 100, and its quotient is never taken with a
\* divisor of zero.
C33_PercentInRange ==
    proc = "running" =>
        /\ percent(view) \in 0..100
        /\ (view.line # 0 /\ Len(view.lines) >= view.height
                /\ Len(view.lines) - view.height # view.line) =>
               Len(view.lines) - view.height # 0

\* C34: forward never scrolls backward: in every reachable state (also at
\* the rows a highlight scrolls to) line after forward(n) is at least line
\* before the call.
C34_ForwardNeverGoesBack ==
    proc = "running" =>
        \A n \in 0..MaxTermHeight : forward(view, n).line >= view.line

\* C35: the scroll amount of Space and b, page height - 2, is computed
\* without unsigned underflow for every page height >= 1 the document pane
\* can have: on a page of one or two rows Space advances by forward's
\* smallest step, one row, and b moves back by no row.
C35_PageAmountDoesNotUnderflow ==
    (proc = "running" /\ focus = "doc" /\ view.height \in 1..2) =>
        \A checks \in BOOLEAN :
            LET space == DocumentWidget_process_key(
                             St, KeyEvent("Char", " ", FALSE), checks).st
                b == DocumentWidget_process_key(
                         St, KeyEvent("Char", "b", FALSE), checks).st
            IN  /\ space.proc = "running"
                /\ space.view = forward(view, 1)
                /\ b.proc = "running"
                /\ b.view = view

\* C36: the layout heights are consistent for every terminal height >= 1,
\* searching or not: search_height() is 0 when not searching and otherwise
\* min(12, (term_height - 1) / 2, len(matches) + 2) raised to at least 1;
\* doc_height() = term_height - 1 - search_height() does not underflow and
\* is at least 1, so the assertion height > 0 of DocumentWidget::render holds.
C36_LayoutHeights ==
    proc = "running" =>
        \A h \in 1..MaxTermHeight, searching \in BOOLEAN :
            LET sh == [shared EXCEPT !.term_height = h, !.searching = searching]
            IN  /\ search_height(sh, search) =
                       IF searching
                       THEN Max(1, Min(12, Min((h - 1) \div 2, Len(search.matches) + 2)))
                       ELSE 0
                /\ doc_height(sh, search) >= 1

\* C37: in every reachable state with matches non-empty, the selection is
\* none or an index below len(matches), so the indices update_matches,
\* open_selected and render_matches read matches at (the selection, or 0
\* without one) are in bounds; and every element of matches is an index
\* into Document.links.
C37_SelectionInBounds ==
    proc = "running" =>
        /\ \A k \in 1..Len(search.matches) :
               search.matches[k] \in 0..(Len(doc.links) - 1)
        /\ Len(search.matches) > 0 =>
               /\ \/ search.selected_idx = None
                  \/ Unwrap(search.selected_idx) < Len(search.matches)
               /\ UnwrapOr(search.selected_idx, 0) < Len(search.matches)
               /\ open_selected(doc, search_mut(St)).addr \in
                      { Some(doc.links[search.matches[k] + 1].uri) :
                            k \in 1..Len(search.matches) }

\* A query has reduced the matches to fewer than the links while a later
\* match was selected: the selection has moved to an index of the new list.
C37_Witness ==
    /\ proc = "running"
    /\ search.query # << >>
    /\ Len(search.matches) \in 1..(Len(doc.links) - 1)
    /\ search.selected_idx = Some(Len(search.matches) - 1)
    /\ search.matches[Len(search.matches)] >= Len(search.matches)

\* C38: for every input Document.links is sorted and without overlap: each
\* range has start <= end <= len(text), and consecutive ranges have
\* links[i].end <= links[i + 1].start.
C38_LinksSortedDisjoint ==
    proc = "running" =>
        /\ \A k \in 1..Len(doc.links) :
               /\ doc.links[k].start <= doc.links[k].end
               /\ doc.links[k].end <= TextLen(doc.text)
        /\ \A k \in 1..(Len(doc.links) - 1) :
               doc.links[k].end <= doc.links[k + 1].start

\* A link over a wide cluster is followed at once by a second link, which
\* starts where the first one ends.
C38_Witness ==
    /\ proc = "running"
    /\ input = << ActSetHyperlink("u0"), ActPrint("W"), ActSetHyperlink("u1") >>
    /\ Len(doc.links) = 2
    /\ doc.links[1].end = 3
    /\ doc.links[2].start = 3

\* C39: closing the search with Enter or cancelling it with Escape leaves
\* the query, the matches, the selection and the highlights as they are:
\* only searching changes, and line for Escape. So n and N pressed after the
\* search is closed go through the matches of the last query, not through
\* all links, and opening the search again keeps the query.
C39_ClosingKeepsSearch ==
    (proc = "running" /\ focus = "search" /\ shared.searching) =>
        \A key \in {"Enter", "Escape"}, checks \in BOOLEAN, ok \in BOOLEAN :
            LET S1 == deliver(doc, St, KeyEvent(key, "", FALSE), checks, ok)
            IN  /\ S1 = [St EXCEPT !.shared.searching = FALSE,
                                   !.view.line = IF key = "Escape"
                                                 THEN search_activate_line ELSE @]
                /\ S1.search = search
                /\ S1.view.highlights = view.highlights
                /\ \A c \in {"n", "N"} :
                       LET S2 == MainWidget_process_key(
                                     doc, S1, KeyEvent("Char", c, FALSE), ok).st
                       IN  /\ S2.search.query = search.query
                           /\ S2.search.matches = FilterLinks(doc, search.query, 0)
                           /\ Len(S2.search.matches) > 0 =>
                                  /\ IsSome(S2.search.selected_idx)
                                  /\ S2.view.highlights =
                                         << MatchRange(doc, S2.search,
                                                Unwrap(S2.search.selected_idx)) >>
                /\ open_search(doc, S1).search.query = search.query

\* The search pane is open on a query that some links match and others do
\* not, with a match selected and highlighted, when Enter or Escape arrives.
C39_Witness ==
    /\ proc = "running"
    /\ focus = "search"
    /\ shared.searching
    /\ search.query # << >>
    /\ Len(search.matches) \in 1..(Len(doc.links) - 1)
    /\ IsSome(search.selected_idx)
    /\ view.highlights # << >>
    /\ view.line # search_activate_line

\* The turns that may come before the paging: nothing, a key that selects a
\* link (and scrolls to it), opens or cancels the search or pages, or a
\* resize of the terminal, which had w columns and h rows.
PagingPrefix(w, h) ==
    { [e |-> e, w |-> w, h |-> h] :
          e \in { [kind |-> "None", key |-> "", c |-> "", ctrl |-> FALSE, s |-> << >>],
                  KeyEvent("Escape", "", FALSE) }
                \cup { KeyEvent("Char", c, FALSE) : c \in {"n", "N", "/", " "} } }
    \cup { [e |-> [kind |-> "Resized", key |-> "", c |-> "", ctrl |-> FALSE,
                   s |-> << >>], w |-> w2, h |-> h2] :
               w2 \in 1..MaxWidth, h2 \in 2..MaxTermHeight }

\* The session after create_ui and two turns of PagingPrefix that it
\* survives, when the user starts to press Down.
PagingInit ==
    \E i \in 1..Len(Inputs), w \in 1..MaxWidth, h \in 2..MaxTermHeight :
    \E d \in { Flowed(DocumentNew(Inputs[i])) } :
    \E S1 \in { step(d, [view |-> NewView(d, w, h), search |-> NewSearch(d),
                         shared |-> [searching |-> FALSE, term_height |-> h,
                                     quit |-> FALSE],
                         last_error |-> None, search_activate_line |-> 0,
                         focus |-> "doc", proc |-> "running", opened |-> << >>],
                     [kind |-> "None", key |-> "", c |-> "", ctrl |-> FALSE,
                      s |-> << >>],
                     w, h, FALSE, TRUE) } :
    \E t1 \in PagingPrefix(w, h) :
    \E S2 \in { step(d, S1, t1.e, t1.w, t1.h, FALSE, TRUE) } :
    \E t2 \in PagingPrefix(t1.w, t1.h) :
    \E S3 \in { step(d, S2, t2.e, t2.w, t2.h, FALSE, TRUE) } :
        /\ S1.proc = "running"
        /\ S2.proc = "running"
        /\ S3.proc = "running"
        /\ input = Inputs[i]
        /\ doc = d
        /\ view = S3.view
        /\ search = S3.search
        /\ shared = S3.shared
        /\ last_error = S3.last_error
        /\ search_activate_line = S3.search_activate_line
        /\ focus = S3.focus
        /\ proc = S3.proc
        /\ paged_only = (t1.e.kind = "None" /\ t2.e.kind = "None")
        /\ line_before_search =
               IF t2.e = KeyEvent("Char", "/", FALSE) /\ S2.focus = "doc"
               THEN S2.view.line
               ELSE S1.view.line

\* With no other event, every key the user presses is Down.
PagingNext == KeyArrow("Down")

\* The session under a user who keeps pressing Down.
PagingSpec == PagingInit /\ [][PagingNext]_vars /\ WF_vars(PagingNext)

\* C40 as stated: if the document has more rows than the page, then from
\* every reachable state Down presses with no other event in between
\* eventually bring line to len(lines) - height, where percent() is 100, and
\* every further Down leaves line there.
C40_DownReachesEnd ==
    <>[](Len(view.lines) > view.height =>
             /\ proc = "running"
             /\ view.line = Len(view.lines) - view.height
             /\ percent(view) = 100)

\* C40, amended: as above from every reachable state in which the document
\* pane has the focus; in the search pane Down selects the next match.
C40_DownInDocumentReachesEnd ==
    <>[]((focus = "doc" /\ Len(view.lines) > view.height) =>
             /\ proc = "running"
             /\ view.line = Len(view.lines) - view.height
             /\ percent(view) = 100)

\* The page stands on the last full page of a document longer than the page,
\* below a row that a highlight had scrolled to.
C40_Witness ==
    /\ proc = "running"
    /\ focus = "doc"
    /\ ~paged_only
    /\ view.highlights # << >>
    /\ Len(view.lines) > view.height
    /\ view.line = Len(view.lines) - view.height
    /\ percent(view) = 100

====
